---- MODULE Spec2Model ----
(***************************************************************************)
(* HouseForge token renderer (render/scripts/render_token.py) running on   *)
(* a scene built by the template generator                                 *)
(* (render/scripts/generate_templates.py).                                 *)
(*                                                                         *)
(* Numbers.  Material, compositor and colour-management values are kept in *)
(* thousandths (0.35 is 350); colours are triples of thousandths; the      *)
(* energy multipliers of the light signatures are kept in hundredths       *)
(* (1.2 is 120); light strengths are kept in ten-thousandths (140 is       *)
(* 1400000), so that strength * multiplier / 100 is exact.                 *)
(*                                                                         *)
(* A Python dict is a function whose DOMAIN is the set of its keys, so     *)
(* that `k in d` is k \in DOMAIN d and d.get(k, default) is Get.           *)
(***************************************************************************)
EXTENDS Integers, Sequences, FiniteSets, TLC

VARIABLES
    world,   \* world[h]: one Python interpreter: bpy.data, the scene, the random module
    thr      \* thr[t]: one execution of main(): position, locals, pending exception

vars == <<world, thr>>

-----------------------------------------------------------------------------
(* Bounds of the model *)

\* os entropy that seeds the random module at import ranges over 0..MaxEntropy
MaxEntropy == 1

\* renderSettings.maxBounces of a recipe ranges over 0..MaxBounces
MaxBounces == 7

\* create_floating_particles is called with count in 0..MaxParticles
MaxParticles == 3

-----------------------------------------------------------------------------
(* Python helpers *)

Get(d, k, default) == IF k \in DOMAIN d THEN d[k] ELSE default

Min(a, b) == IF a < b THEN a ELSE b

EmptyDict == [k \in {} |-> "none"]

Restrict(d, S) == [k \in (DOMAIN d) \cap S |-> d[k]]

-----------------------------------------------------------------------------
(* render_token.py: the trait tables *)

frame_materials ==
    [ BrushedSteel  |-> [color |-> <<600, 600, 620>>, metallic |-> 1000, roughness |-> 350],
      PolishedBrass |-> [color |-> <<850, 650, 300>>, metallic |-> 1000, roughness |-> 150],
      AntiqueBronze |-> [color |-> <<450, 350, 250>>, metallic |-> 1000, roughness |-> 500],
      WhiteGold     |-> [color |-> <<900, 880, 800>>, metallic |-> 1000, roughness |-> 100],
      BlackTitanium |-> [color |-> <<80, 80, 100>>,   metallic |-> 1000, roughness |-> 250],
      CopperVerde   |-> [color |-> <<700, 450, 350>>, metallic |-> 1000, roughness |-> 400],
      RoseGold      |-> [color |-> <<900, 600, 550>>, metallic |-> 1000, roughness |-> 200],
      PlatinumMatte |-> [color |-> <<750, 750, 780>>, metallic |-> 1000, roughness |-> 600],
      MirrorChrome  |-> [color |-> <<950, 950, 970>>, metallic |-> 1000, roughness |-> 20],
      GunmetalBlue  |-> [color |-> <<250, 280, 350>>, metallic |-> 1000, roughness |-> 300] ]

core_materials ==
    [ ClearCrystal  |-> [color |-> <<980, 990, 1000>>, transmission |-> 950, roughness |-> 20],
      CloudGlass    |-> [color |-> <<950, 960, 980>>,  transmission |-> 700, roughness |-> 150],
      LiquidMercury |-> [color |-> <<850, 850, 880>>,  transmission |-> 0,   roughness |-> 50,
                         metallic |-> 950],
      MoltenAmber   |-> [color |-> <<1000, 700, 300>>, transmission |-> 850, roughness |-> 100,
                         emission |-> 100],
      VoidObsidian  |-> [color |-> <<20, 20, 30>>,     transmission |-> 400, roughness |-> 80],
      FrozenPlasma  |-> [color |-> <<600, 800, 1000>>, transmission |-> 300, roughness |-> 100,
                         emission |-> 2000],
      StormEssence  |-> [color |-> <<500, 600, 800>>,  transmission |-> 500, roughness |-> 200,
                         emission |-> 500],
      DesertQuartz  |-> [color |-> <<1000, 950, 850>>, transmission |-> 800, roughness |-> 200],
      AuroraSilk    |-> [color |-> <<800, 850, 900>>,  transmission |-> 600, roughness |-> 300],
      EclipseCore   |-> [color |-> <<100, 80, 120>>,   transmission |-> 200, roughness |-> 50,
                         emission |-> 300] ]

aging_params ==
    [ Pristine       |-> [roughness_add |-> 0],
      SlightWear     |-> [roughness_add |-> 50],
      LightPatina    |-> [roughness_add |-> 100],
      WeatheredGrace |-> [roughness_add |-> 150],
      AncientRelic   |-> [roughness_add |-> 250] ]

geometry_objects ==
    <<"Geo_Capsule", "Geo_Obelisk", "Geo_Cube", "Geo_Sphere", "Geo_Prism",
      "Geo_BarometerAssembly">>

signatures ==
    [ Sunbeam       |-> [energy_mult |-> 120, accent_color |-> <<1000, 950, 850>>],
      PrismaticRay  |-> [energy_mult |-> 100, accent_color |-> <<1000, 900, 950>>],
      NeonRain      |-> [energy_mult |-> 80,  accent_color |-> <<400, 900, 1000>>],
      WetGlow       |-> [energy_mult |-> 70,  accent_color |-> <<850, 920, 1000>>],
      LightningFork |-> [energy_mult |-> 150, accent_color |-> <<700, 850, 1000>>],
      IonBloom      |-> [energy_mult |-> 90,  accent_color |-> <<600, 500, 1000>>],
      PolarGlow     |-> [energy_mult |-> 85,  accent_color |-> <<600, 900, 800>>],
      FrostScatter  |-> [energy_mult |-> 110, accent_color |-> <<800, 950, 1000>>],
      AuroraRibbon  |-> [energy_mult |-> 75,  accent_color |-> <<300, 1000, 600>>],
      SpectrumVeil  |-> [energy_mult |-> 70,  accent_color |-> <<800, 700, 1000>>],
      GoldenHaze    |-> [energy_mult |-> 130, accent_color |-> <<1000, 850, 600>>],
      DustHalo      |-> [energy_mult |-> 90,  accent_color |-> <<1000, 900, 750>>],
      EclipseHalo   |-> [energy_mult |-> 40,  accent_color |-> <<1000, 700, 400>>],
      RingRim       |-> [energy_mult |-> 30,  accent_color |-> <<1000, 800, 500>>] ]

house_defaults ==
    [ CLEAR   |-> "Sunbeam",
      MONSOON |-> "NeonRain",
      THUNDER |-> "LightningFork",
      FROST   |-> "PolarGlow",
      AURORA  |-> "AuroraRibbon",
      SAND    |-> "GoldenHaze",
      ECLIPSE |-> "EclipseHalo" ]

atmosphere_settings ==
    [ Clear         |-> [volume_density |-> 0],
      MistVeil      |-> [volume_density |-> 100],
      RainCurtain   |-> [volume_density |-> 80],
      DustStorm     |-> [volume_density |-> 150],
      SnowDrift     |-> [volume_density |-> 50],
      ThunderCloud  |-> [volume_density |-> 120],
      AuroraWisp    |-> [volume_density |-> 30],
      EclipseShadow |-> [volume_density |-> 80] ]

\* the key "None" of the table is the Python string "None"
bloom_settings ==
    [ None      |-> [enabled |-> FALSE],
      Subtle    |-> [threshold |-> 900, size |-> 3, mix |-> 0],
      Moderate  |-> [threshold |-> 800, size |-> 5, mix |-> 0],
      Intense   |-> [threshold |-> 700, size |-> 8, mix |-> 0],
      Cinematic |-> [threshold |-> 750, size |-> 6, mix |-> 0] ]

temp_settings ==
    [ Warm         |-> [exposure |-> 100, gamma |-> <<1020, 1000, 980>>],
      Cool         |-> [exposure |-> 0,   gamma |-> <<980, 1000, 1020>>],
      Neutral      |-> [exposure |-> 0,   gamma |-> <<1000, 1000, 1000>>],
      HighContrast |-> [exposure |-> 50,  gamma |-> <<1000, 1000, 1000>>],
      Desaturated  |-> [exposure |-> 0,   gamma |-> <<1000, 1000, 1000>>] ]

required_fields == <<"tokenId", "houseKey", "seed", "traits", "output", "renderSettings">>

-----------------------------------------------------------------------------
(* generate_templates.py: BASE_CONFIG and HOUSES *)

\* a house parameter that is a number in some houses and a (min, max) tuple in others
Scalar(v) == [is_tuple |-> FALSE, v |-> v]

Tuple(lo, hi) == [is_tuple |-> TRUE, v |-> <<lo, hi>>]

BASE_CONFIG ==
    [ world |-> [strength |-> 180],
      color_management |-> [exposure |-> 600, gamma |-> 1000],
      cycles |-> [samples |-> 96, noise_threshold |-> 15, max_bounces |-> 6,
                  diffuse_bounces |-> 2, glossy_bounces |-> 3,
                  transmission_bounces |-> 6, volume_bounces |-> 2],
      lighting |->
        [ key        |-> [size |-> <<1200, 600>>, strength |-> 1400000,
                          color |-> <<1000, 1000, 1000>>,
                          location |-> <<-900, -800, 850>>, rotation |-> <<35, 0, 25>>],
          fill       |-> [size |-> <<1500, 800>>, strength |-> 550000,
                          color |-> <<1000, 1000, 1000>>,
                          location |-> <<1000, -600, 450>>, rotation |-> <<20, 0, -20>>],
          rim        |-> [size |-> <<1200, 200>>, strength |-> 950000,
                          color |-> <<1000, 1000, 1000>>,
                          location |-> <<900, 1200, 750>>, rotation |-> <<10, 0, 160>>],
          top_accent |-> [size |-> <<600, 600>>, strength |-> 200000,
                          color |-> <<1000, 1000, 1000>>,
                          location |-> <<0, -200, 1400>>, rotation |-> <<90, 0, 0>>] ],
      compositor |-> [glare_threshold |-> 1000, glare_size |-> 6, glare_mix |-> 180],
      output |-> [resolution |-> <<1024, 1024>>] ]

HOUSES ==
    [ CLEAR |->
        [ id |-> 1, world_strength |-> 200,
          core_type |-> "glass", core_roughness |-> <<25, 45>>, core_ior |-> 1520,
          core_dispersion |-> 20,
          glare_mix |-> 120,
          light_signature |-> <<
            [name |-> "PrismaticStrip", type |-> "EMISSION_PLANE", size |-> <<1400, 120>>,
             strength |-> 350000, color |-> <<1000, 1000, 1000>>,
             location |-> <<0, -1000, 900>>, rotation |-> <<20, 0, 0>>] >>,
          volume_enabled |-> FALSE,
          tint |-> <<1000, 1000, 1000>>,
          primary_color |-> <<1000, 950, 850>>, secondary_color |-> <<950, 880, 750>>,
          accent_color |-> <<1000, 850, 400>>, emission_color |-> <<1000, 950, 700>>,
          emission_strength |-> Scalar(5000) ],
      MONSOON |->
        [ id |-> 2, rim_color |-> <<745, 922, 1000>>,
          core_type |-> "glass", core_roughness |-> <<15, 35>>, core_ior |-> 1330,
          light_signature |-> <<
            [name |-> "NeonStrip1", type |-> "EMISSION_PLANE", size |-> <<1600, 60>>,
             strength |-> 450000, color |-> <<494, 906, 1000>>,
             location |-> <<-600, -900, 800>>, rotation |-> <<25, 0, 15>>],
            [name |-> "NeonStrip2", type |-> "EMISSION_PLANE", size |-> <<1600, 60>>,
             strength |-> 350000, color |-> <<639, 608, 1000>>,
             location |-> <<500, -850, 750>>, rotation |-> <<22, 0, -12>>] >>,
          volume_enabled |-> TRUE, volume_density |-> 35, volume_anisotropy |-> 350,
          volume_color |-> <<910, 957, 1000>>,
          tint |-> <<816, 910, 1000>>,
          primary_color |-> <<400, 700, 1000>>, secondary_color |-> <<200, 500, 900>>,
          accent_color |-> <<300, 850, 1000>>, emission_color |-> <<400, 800, 1000>>,
          emission_strength |-> Scalar(3000) ],
      THUNDER |->
        [ id |-> 3, key_strength |-> 1550000, fill_strength |-> 400000,
          rim_strength |-> 1200000,
          core_type |-> "emissive_glass", core_roughness |-> <<20, 40>>,
          emission_color |-> <<545, 486, 1000>>, emission_strength |-> Tuple(4000, 12000),
          glare_mix |-> 220,
          light_signature |-> <<
            [name |-> "LightningPoint", type |-> "AREA", size |-> <<120, 120>>,
             strength |-> 2200000, color |-> <<769, 741, 1000>>,
             location |-> <<-200, -900, 950>>, rotation |-> <<45, 0, 10>>],
            [name |-> "IonBloom", type |-> "POINT", size |-> 80,
             strength |-> 800000, color |-> <<608, 561, 1000>>,
             location |-> <<0, 0, 100>>] >>,
          volume_enabled |-> TRUE, volume_density |-> 15, volume_anisotropy |-> 200,
          volume_color |-> <<878, 863, 1000>>,
          tint |-> <<910, 894, 1000>>,
          primary_color |-> <<600, 500, 1000>>, secondary_color |-> <<400, 300, 900>>,
          accent_color |-> <<800, 600, 1000>> ],
      FROST |->
        [ id |-> 4,
          core_type |-> "frosted_glass", core_roughness |-> <<60, 120>>, core_ior |-> 1310,
          subsurface_color |-> <<839, 949, 1000>>, subsurface_strength |-> 80,
          edge_frost |-> TRUE,
          glare_mix |-> 120,
          light_signature |-> <<
            [name |-> "PolarFill", type |-> "EMISSION_PLANE", size |-> <<2000, 1200>>,
             strength |-> 350000, color |-> <<839, 949, 1000>>,
             location |-> <<800, 500, 600>>, rotation |-> <<30, 0, -25>>],
            [name |-> "FrostScatter", type |-> "AREA", size |-> <<800, 800>>,
             strength |-> 200000, color |-> <<910, 980, 1000>>,
             location |-> <<0, -300, 1200>>, rotation |-> <<75, 0, 0>>] >>,
          volume_enabled |-> TRUE, volume_density |-> 18, volume_anisotropy |-> 200,
          volume_color |-> <<878, 957, 1000>>,
          tint |-> <<878, 973, 1000>>,
          primary_color |-> <<850, 950, 1000>>, secondary_color |-> <<700, 900, 1000>>,
          accent_color |-> <<600, 950, 1000>>, emission_color |-> <<700, 900, 1000>>,
          emission_strength |-> Scalar(2500) ],
      AURORA |->
        [ id |-> 5,
          core_type |-> "iridescent_glass", core_roughness |-> <<20, 40>>, core_ior |-> 1480,
          iridescence_strength |-> 150, iridescence_shift |-> 300,
          orbit_emission_color |-> <<725, 698, 1000>>,
          orbit_emission_strength |-> Tuple(8000, 14000),
          light_signature |-> <<
            [name |-> "SpectrumCard", type |-> "EMISSION_PLANE", size |-> <<1200, 400>>,
             strength |-> 200000, color |-> <<910, 816, 1000>>,
             location |-> <<-700, -600, 900>>, rotation |-> <<35, 0, 20>>,
             gradient |-> TRUE] >>,
          volume_enabled |-> FALSE,
          tint |-> <<941, 910, 1000>>,
          primary_color |-> <<300, 1000, 500>>, secondary_color |-> <<900, 400, 1000>>,
          accent_color |-> <<400, 900, 1000>>, emission_color |-> <<500, 1000, 700>>,
          emission_strength |-> Scalar(4000) ],
      SAND |->
        [ id |-> 6, fill_color |-> <<1000, 843, 639>>, fill_strength |-> 650000,
          core_type |-> "emissive_glass", core_roughness |-> <<40, 80>>, core_ior |-> 1500,
          emission_color |-> <<1000, 894, 769>>, emission_strength |-> Tuple(2000, 5000),
          metal_roughness |-> <<180, 260>>, metal_anisotropic |-> 600,
          metal_color |-> <<788, 663, 380>>,
          light_signature |-> <<
            [name |-> "GoldenFill", type |-> "EMISSION_PLANE", size |-> <<1400, 800>>,
             strength |-> 400000, color |-> <<1000, 925, 816>>,
             location |-> <<600, -500, 500>>, rotation |-> <<25, 0, -15>>],
            [name |-> "DustHalo", type |-> "EMISSION_PLANE", size |-> <<800, 800>>,
             strength |-> 180000, color |-> <<1000, 910, 753>>,
             location |-> <<0, 800, 300>>, rotation |-> <<15, 0, 180>>] >>,
          volume_enabled |-> TRUE, volume_density |-> 30, volume_anisotropy |-> 550,
          volume_color |-> <<1000, 957, 910>>,
          tint |-> <<1000, 910, 816>>,
          primary_color |-> <<1000, 850, 500>>, secondary_color |-> <<900, 700, 400>>,
          accent_color |-> <<1000, 600, 200>> ],
      ECLIPSE |->
        [ id |-> 7, world_strength |-> 120,
          fill_strength |-> 350000, rim_strength |-> 1500000,
          rim_color |-> <<969, 827, 486>>,
          core_type |-> "void", core_base_color |-> <<20, 20, 20>>,
          core_roughness |-> <<80, 140>>, core_metallic |-> 1000,
          fresnel_emission_color |-> <<1000, 690, 251>>,
          fresnel_emission_strength |-> 8000, fresnel_ior |-> 2500, fresnel_power |-> 3000,
          metal_color |-> <<39, 39, 39>>, metal_roughness |-> <<80, 140>>,
          glare_mix |-> 220,
          light_signature |-> <<
            [name |-> "CoronaDisc", type |-> "EMISSION_PLANE", size |-> <<900, 900>>,
             strength |-> 200000, color |-> <<1000, 816, 502>>,
             location |-> <<0, 600, 0>>, rotation |-> <<0, 0, 0>>],
            [name |-> "RingRim", type |-> "EMISSION_RING", radius |-> 450,
             tube_radius |-> 15,
             strength |-> 150000, color |-> <<1000, 753, 376>>,
             location |-> <<0, 300, 0>>, rotation |-> <<90, 0, 0>>] >>,
          volume_enabled |-> FALSE,
          tint |-> <<1000, 878, 690>>,
          primary_color |-> <<150, 100, 200>>, secondary_color |-> <<300, 200, 400>>,
          accent_color |-> <<1000, 400, 100>>, emission_color |-> <<1000, 500, 200>>,
          emission_strength |-> Scalar(12000) ] ]

-----------------------------------------------------------------------------
(* generate_templates.py: materials.  A material is its node tree: the     *)
(* sequence of its nodes (each with the default values of its input        *)
(* sockets) and the set of its links <<from node, to node, to socket>>.    *)

\* nodes.new('ShaderNodeBsdfPrincipled'): the engine's default socket values
PrincipledBSDF ==
    [ type |-> "BSDF_PRINCIPLED", name |-> "Principled BSDF",
      BaseColor |-> <<800, 800, 800>>, Metallic |-> 0, Roughness |-> 500,
      IOR |-> 1500, TransmissionWeight |-> 0,
      EmissionColor |-> <<1000, 1000, 1000>>, EmissionStrength |-> 0 ]

OutputMaterial == [type |-> "OUTPUT_MATERIAL", name |-> "Material Output"]

EmissionNode(color, strength) ==
    [type |-> "EMISSION", name |-> "Emission", Color |-> color, Strength |-> strength]

FresnelNode(ior) == [type |-> "FRESNEL", name |-> "Fresnel", IOR |-> ior]

MathNode(name, operation, value1) ==
    [type |-> "MATH", name |-> name, operation |-> operation, Value1 |-> value1]

Material(nodes, links) == [use_nodes |-> TRUE, nodes |-> nodes, links |-> links]

\* bpy.data.materials.new(name) followed by mat.use_nodes = True
NewMaterial ==
    Material(<<PrincipledBSDF, OutputMaterial>>,
             {<<"Principled BSDF", "Material Output", "Surface">>})

create_metallic_material(name, color, metallic, roughness, anisotropic) ==
    Material(
      << OutputMaterial,
         [PrincipledBSDF EXCEPT !.BaseColor = color, !.Metallic = metallic,
                                !.Roughness = roughness]
           @@ [Anisotropic |-> anisotropic],
         [type |-> "TEX_NOISE", name |-> "Noise Texture", Scale |-> 50, Detail |-> 8],
         MathNode("Math", "MULTIPLY", 20),
         MathNode("Math.001", "ADD", roughness) >>,
      { <<"Noise Texture", "Math", "Value0">>,
        <<"Math", "Math.001", "Value0">>,
        <<"Math.001", "Principled BSDF", "Roughness">>,
        <<"Principled BSDF", "Material Output", "Surface">> })

\* sockets: the input sockets the engine's Principled node offers beyond the
\* standard ones; assigning to a socket it lacks raises, and the bare except
\* of lines 651-654 swallows that
\* create_glass_material that writes the dispersion whatever the node offers
create_glass_material_forced(sockets, name, color, transmission, roughness, ior, dispersion) ==
    LET principled ==
          [PrincipledBSDF EXCEPT !.BaseColor = color, !.Metallic = 0,
                                 !.Roughness = roughness,
                                 !.TransmissionWeight = transmission, !.IOR = ior]
        withDispersion ==
          IF dispersion > 0 THEN principled @@ [Dispersion |-> dispersion] ELSE principled
    IN  Material(<<OutputMaterial, withDispersion>>,
                 {<<"Principled BSDF", "Material Output", "Surface">>})

create_glass_material(sockets, name, color, transmission, roughness, ior, dispersion) ==
    LET principled ==
          [PrincipledBSDF EXCEPT !.BaseColor = color, !.Metallic = 0,
                                 !.Roughness = roughness,
                                 !.TransmissionWeight = transmission, !.IOR = ior]
        withDispersion ==
          IF dispersion > 0 /\ "Dispersion" \in sockets
          THEN principled @@ [Dispersion |-> dispersion]
          ELSE principled
    IN  Material(<<OutputMaterial, withDispersion>>,
                 {<<"Principled BSDF", "Material Output", "Surface">>})

create_emissive_glass_material(name, color, emission_color, emission_strength, roughness, ior) ==
    Material(
      << OutputMaterial,
         [PrincipledBSDF EXCEPT !.BaseColor = color, !.Roughness = roughness,
                                !.TransmissionWeight = 900, !.IOR = ior],
         EmissionNode(emission_color, emission_strength),
         FresnelNode(1400),
         [type |-> "MIX_SHADER", name |-> "Mix Shader"] >>,
      { <<"Fresnel", "Mix Shader", "Fac">>,
        <<"Principled BSDF", "Mix Shader", "Shader1">>,
        <<"Emission", "Mix Shader", "Shader2">>,
        <<"Mix Shader", "Material Output", "Surface">> })

\* subsurface_color = None is the empty tuple <<>>
create_frosted_glass_material(name, color, roughness, ior, subsurface_color, subsurface_strength, edge_frost) ==
    LET base == [PrincipledBSDF EXCEPT !.BaseColor = color,
                                       !.TransmissionWeight = 880, !.IOR = ior]
        sss  == IF subsurface_color # <<>>
                THEN base @@ [SubsurfaceWeight |-> subsurface_strength,
                              SubsurfaceRadius |-> subsurface_color]
                ELSE base
    IN  IF edge_frost
        THEN Material(
               << OutputMaterial, sss, FresnelNode(1300),
                  MathNode("Math", "MULTIPLY", 150),
                  MathNode("Math.001", "ADD", roughness) >>,
               { <<"Fresnel", "Math", "Value0">>,
                 <<"Math", "Math.001", "Value0">>,
                 <<"Math.001", "Principled BSDF", "Roughness">>,
                 <<"Principled BSDF", "Material Output", "Surface">> })
        ELSE Material(
               << OutputMaterial, [sss EXCEPT !.Roughness = roughness] >>,
               { <<"Principled BSDF", "Material Output", "Surface">> })

\* create_void_material that leaves the Fresnel node at its default IOR
create_void_material_default_fresnel(name, base_color, corona_color, corona_strength, fresnel_ior, fresnel_power) ==
    Material(
      << OutputMaterial,
         [PrincipledBSDF EXCEPT !.BaseColor = base_color, !.Metallic = 1000,
                                !.Roughness = 100],
         EmissionNode(corona_color, corona_strength),
         FresnelNode(1450),
         MathNode("Math", "POWER", fresnel_power),
         [type |-> "MIX_SHADER", name |-> "Mix Shader"] >>,
      { <<"Fresnel", "Math", "Value0">>,
        <<"Math", "Mix Shader", "Fac">>,
        <<"Principled BSDF", "Mix Shader", "Shader1">>,
        <<"Emission", "Mix Shader", "Shader2">>,
        <<"Mix Shader", "Material Output", "Surface">> })

create_void_material(name, base_color, corona_color, corona_strength, fresnel_ior, fresnel_power) ==
    Material(
      << OutputMaterial,
         [PrincipledBSDF EXCEPT !.BaseColor = base_color, !.Metallic = 1000,
                                !.Roughness = 100],
         EmissionNode(corona_color, corona_strength),
         FresnelNode(fresnel_ior),
         MathNode("Math", "POWER", fresnel_power),
         [type |-> "MIX_SHADER", name |-> "Mix Shader"] >>,
      { <<"Fresnel", "Math", "Value0">>,
        <<"Math", "Mix Shader", "Fac">>,
        <<"Principled BSDF", "Mix Shader", "Shader1">>,
        <<"Emission", "Mix Shader", "Shader2">>,
        <<"Mix Shader", "Material Output", "Surface">> })

create_iridescent_glass_material(name, color, roughness, ior, irid_strength, irid_shift) ==
    Material(
      << OutputMaterial,
         [PrincipledBSDF EXCEPT !.BaseColor = color, !.Roughness = roughness,
                                !.TransmissionWeight = 900, !.IOR = ior],
         [type |-> "LAYER_WEIGHT", name |-> "Layer Weight", Blend |-> 500],
         [type |-> "VALTORGB", name |-> "Color Ramp",
          colors |-> << <<900, 800, 1000>>, <<800, 1000, 900>> >>],
         [type |-> "MIX", name |-> "Mix", Factor |-> irid_strength, A |-> color] >>,
      { <<"Layer Weight", "Color Ramp", "Fac">>,
        <<"Color Ramp", "Mix", "B">>,
        <<"Mix", "Principled BSDF", "Base Color">>,
        <<"Principled BSDF", "Material Output", "Surface">> })

create_emission_material(name, color, strength) ==
    Material(
      << OutputMaterial,
         EmissionNode(color, strength),
         [type |-> "BSDF_TRANSPARENT", name |-> "Transparent BSDF"],
         [type |-> "MIX_SHADER", name |-> "Mix Shader", Fac |-> 900] >>,
      { <<"Transparent BSDF", "Mix Shader", "Shader1">>,
        <<"Emission", "Mix Shader", "Shader2">>,
        <<"Mix Shader", "Material Output", "Surface">> })

-----------------------------------------------------------------------------
(* generate_templates.py: the random module.  The generator is            *)
(* deterministic: what a draw returns is a function of the state the       *)
(* generator is in, and so is the state the draw leaves.                   *)

\* random.seed(42)
seed_42 == [source |-> "seed", state |-> <<0, 42>>]

\* random.uniform(a, b), bounds in thousandths
uniform(rng, a, b) == [rng |-> rng, a |-> a, b |-> b]

\* the generator after a draw
drawn(rng) == [rng EXCEPT !.state = Append(@, Len(@))]

RECURSIVE scatter(_, _, _, _, _)
\* lines 1300-1314: for i in range(count); a location is kept as its spherical
\* coordinates and the offset of z, a radius as size times its factor
scatter(rng, objects, count, radius_range, size) ==
    IF Len(objects) >= count THEN [rng |-> rng, objects |-> objects]
    ELSE LET theta == uniform(rng, 0, 6283)
             rng1  == drawn(rng)
             phi   == uniform(rng1, 0, 3142)
             rng2  == drawn(rng1)
             r     == uniform(rng2, radius_range[1], radius_range[2])
             rng3  == drawn(rng2)
             particle_size == [size |-> size, factor |-> uniform(rng3, 500, 1500)]
             particle == [location |-> [r |-> r, phi |-> phi, theta |-> theta, dz |-> -200],
                          radius |-> particle_size]
         IN  scatter(drawn(rng3), Append(objects, particle), count, radius_range, size)

\* create_floating_particles that draws from the stream as it finds it
create_floating_particles_unseeded(w, name, count, radius_range, size) ==
    LET res == scatter(w.rng, <<>>, count, radius_range, size)
    IN  IF count <= 0
        THEN [w |-> w, raised |-> "IndexError"]
        ELSE [w |-> [w EXCEPT !.rng = res.rng,
                              !.objects = (name :> [type |-> "MESH", materials |-> <<>>,
                                                    hide_viewport |-> FALSE,
                                                    hide_render |-> FALSE,
                                                    particles |-> res.objects]) @@ @],
              raised |-> ""]

\* w: the generator process.  objects[0] of line 1319 raises IndexError when
\* no particle was made; the particles are joined into one mesh named `name`.
create_floating_particles(w, name, count, radius_range, size) ==
    LET res == scatter(seed_42, <<>>, count, radius_range, size)
    IN  IF count <= 0
        THEN [w |-> [w EXCEPT !.rng = seed_42], raised |-> "IndexError"]
        ELSE [w |-> [w EXCEPT !.rng = res.rng,
                              !.objects = (name :> [type |-> "MESH", materials |-> <<>>,
                                                    hide_viewport |-> FALSE,
                                                    hide_render |-> FALSE,
                                                    particles |-> res.objects]) @@ @],
              raised |-> ""]

-----------------------------------------------------------------------------
(* generate_templates.py: the scene.  A .blend file d is bpy.data.objects, *)
(* bpy.data.materials and the scene settings.                              *)

MeshObject(materials) ==
    [type |-> "MESH", materials |-> materials,
     hide_viewport |-> FALSE, hide_render |-> FALSE]

AddObject(d, name, obj) ==
    [d EXCEPT !.objects = (name :> obj) @@ d.objects]

AddMaterial(d, name, mat) ==
    [d EXCEPT !.materials = (name :> mat) @@ d.materials]

create_emission_plane(d, name, size, strength, color, location, rotation) ==
    LET mat   == Material(<<OutputMaterial, EmissionNode(color, strength)>>,
                          {<<"Emission", "Material Output", "Surface">>})
        plane == MeshObject(<<"MAT_" \o name>>)
                   @@ [scale |-> size, location |-> location, rotation |-> rotation,
                       visible_camera |-> FALSE]
    IN  AddObject(AddMaterial(d, "MAT_" \o name, mat), name, plane)

create_emission_ring(d, name, radius, tube_radius, strength, color, location, rotation) ==
    LET mat  == Material(<<OutputMaterial, EmissionNode(color, strength)>>,
                         {<<"Emission", "Material Output", "Surface">>})
        ring == MeshObject(<<"MAT_" \o name>>)
                  @@ [major_radius |-> radius, minor_radius |-> tube_radius,
                      location |-> location, rotation |-> rotation,
                      visible_camera |-> FALSE]
    IN  AddObject(AddMaterial(d, "MAT_" \o name, mat), name, ring)

\* the dispatch without the EMISSION_RING branch
create_signature_light_no_ring(d, light_def) ==
    CASE light_def.type = "EMISSION_PLANE" ->
           create_emission_plane(d, light_def.name, light_def.size, light_def.strength,
                                 light_def.color, light_def.location, light_def.rotation)
      [] light_def.type = "AREA" ->
           AddObject(d, light_def.name,
             [type |-> "LIGHT", light_type |-> "AREA",
              size |-> light_def.size[1], size_y |-> light_def.size[2],
              energy |-> light_def.strength, color |-> light_def.color,
              location |-> light_def.location,
              rotation |-> Get(light_def, "rotation", <<0, 0, 0>>),
              hide_viewport |-> FALSE, hide_render |-> FALSE])
      [] light_def.type = "POINT" ->
           AddObject(d, light_def.name,
             [type |-> "LIGHT", light_type |-> "POINT",
              energy |-> light_def.strength, color |-> light_def.color,
              location |-> light_def.location,
              hide_viewport |-> FALSE, hide_render |-> FALSE]
             @@ (IF "size" \in DOMAIN light_def
                 THEN [shadow_soft_size |-> light_def.size] ELSE EmptyDict))
      [] OTHER -> d

\* lines 1421-1466: one light of the house's light_signature, by its tagged type
create_signature_light(d, light_def) ==
    CASE light_def.type = "EMISSION_PLANE" ->
           create_emission_plane(d, light_def.name, light_def.size, light_def.strength,
                                 light_def.color, light_def.location, light_def.rotation)
      [] light_def.type = "EMISSION_RING" ->
           create_emission_ring(d, light_def.name, light_def.radius, light_def.tube_radius,
                                light_def.strength, light_def.color, light_def.location,
                                light_def.rotation)
      [] light_def.type = "AREA" ->
           AddObject(d, light_def.name,
             [type |-> "LIGHT", light_type |-> "AREA",
              size |-> light_def.size[1], size_y |-> light_def.size[2],
              energy |-> light_def.strength, color |-> light_def.color,
              location |-> light_def.location,
              rotation |-> Get(light_def, "rotation", <<0, 0, 0>>),
              hide_viewport |-> FALSE, hide_render |-> FALSE])
      [] light_def.type = "POINT" ->
           AddObject(d, light_def.name,
             [type |-> "LIGHT", light_type |-> "POINT",
              energy |-> light_def.strength, color |-> light_def.color,
              location |-> light_def.location,
              hide_viewport |-> FALSE, hide_render |-> FALSE]
             @@ (IF "size" \in DOMAIN light_def
                 THEN [shadow_soft_size |-> light_def.size] ELSE EmptyDict))
      [] OTHER -> d

RECURSIVE create_signature_lights(_, _, _)
create_signature_lights(d, defs, i) ==
    IF i > Len(defs) THEN d
    ELSE create_signature_lights(create_signature_light(d, defs[i]), defs, i + 1)

\* setup_studio_lighting that builds the four base lights from Base alone
setup_studio_lighting_base_only(d, house_config) ==
    LET base_lighting == BASE_CONFIG.lighting
        key_cfg    == base_lighting.key
        fill_cfg   == base_lighting.fill
        rim_cfg    == base_lighting.rim
        accent_cfg == base_lighting.top_accent
        d1 == create_emission_plane(d, "Light_Key", key_cfg.size, key_cfg.strength,
                key_cfg.color, key_cfg.location, key_cfg.rotation)
        d2 == create_emission_plane(d1, "Light_Fill", fill_cfg.size, fill_cfg.strength,
                fill_cfg.color, fill_cfg.location, fill_cfg.rotation)
        d3 == create_emission_plane(d2, "Light_Rim", rim_cfg.size, rim_cfg.strength,
                rim_cfg.color, rim_cfg.location, rim_cfg.rotation)
        d4 == create_emission_plane(d3, "Light_TopAccent", accent_cfg.size,
                accent_cfg.strength, accent_cfg.color,
                accent_cfg.location, accent_cfg.rotation)
    IN  IF "light_signature" \in DOMAIN house_config
        THEN create_signature_lights(d4, house_config.light_signature, 1)
        ELSE d4

setup_studio_lighting(d, house_config) ==
    LET base_lighting == BASE_CONFIG.lighting
        key_cfg    == base_lighting.key
        fill_cfg   == base_lighting.fill
        rim_cfg    == base_lighting.rim
        accent_cfg == base_lighting.top_accent
        d1 == create_emission_plane(d, "Light_Key", key_cfg.size,
                Get(house_config, "key_strength", key_cfg.strength),
                key_cfg.color, key_cfg.location, key_cfg.rotation)
        d2 == create_emission_plane(d1, "Light_Fill", fill_cfg.size,
                Get(house_config, "fill_strength", fill_cfg.strength),
                Get(house_config, "fill_color", fill_cfg.color),
                fill_cfg.location, fill_cfg.rotation)
        d3 == create_emission_plane(d2, "Light_Rim", rim_cfg.size,
                Get(house_config, "rim_strength", rim_cfg.strength),
                Get(house_config, "rim_color", rim_cfg.color),
                rim_cfg.location, rim_cfg.rotation)
        d4 == create_emission_plane(d3, "Light_TopAccent", accent_cfg.size,
                accent_cfg.strength, accent_cfg.color,
                accent_cfg.location, accent_cfg.rotation)
    IN  IF "light_signature" \in DOMAIN house_config
        THEN create_signature_lights(d4, house_config.light_signature, 1)
        ELSE d4

setup_world(d, house_config) ==
    [d EXCEPT !.scene.world_strength =
                 Get(house_config, "world_strength", BASE_CONFIG.world.strength)]

setup_atmosphere(d, house_config) ==
    IF ~Get(house_config, "volume_enabled", FALSE) THEN d
    ELSE LET mat == Material(
                      << OutputMaterial,
                         [type |-> "VOLUME_SCATTER", name |-> "Volume Scatter",
                          Density    |-> Get(house_config, "volume_density", 20),
                          Anisotropy |-> Get(house_config, "volume_anisotropy", 300),
                          Color      |-> Get(house_config, "volume_color",
                                             <<1000, 1000, 1000>>)] >>,
                      {<<"Volume Scatter", "Material Output", "Volume">>})
         IN  AddObject(AddMaterial(d, "MAT_Atmosphere", mat), "Atmosphere_Volume",
                       MeshObject(<<"MAT_Atmosphere">>))

setup_render_settings(d) ==
    LET cycles_cfg == BASE_CONFIG.cycles
    IN  [d EXCEPT
          !.scene.render = [engine |-> "CYCLES",
                            resolution_x |-> BASE_CONFIG.output.resolution[1],
                            resolution_y |-> BASE_CONFIG.output.resolution[2],
                            resolution_percentage |-> 100,
                            film_transparent |-> FALSE,
                            file_format |-> "PNG", filepath |-> ""],
          !.scene.cycles = [device |-> "GPU", samples |-> cycles_cfg.samples,
                            use_denoising |-> TRUE, denoiser |-> "OPENIMAGEDENOISE",
                            use_adaptive_sampling |-> TRUE,
                            adaptive_threshold |-> cycles_cfg.noise_threshold,
                            max_bounces |-> cycles_cfg.max_bounces,
                            diffuse_bounces |-> cycles_cfg.diffuse_bounces,
                            glossy_bounces |-> cycles_cfg.glossy_bounces,
                            transmission_bounces |-> cycles_cfg.transmission_bounces,
                            volume_bounces |-> cycles_cfg.volume_bounces],
          !.scene.view_settings = [exposure |-> BASE_CONFIG.color_management.exposure,
                                   gamma |-> BASE_CONFIG.color_management.gamma]]

\* the gain of the colour balance is kept in hundred-thousandths:
\* 1.0 + (tint - 1.0) * 0.05 is 100000 + (tint - 1000) * 5
setup_compositor(d, house_config) ==
    LET comp_cfg  == BASE_CONFIG.compositor
        glare_mix == Get(house_config, "glare_mix", comp_cfg.glare_mix)
        tint      == Get(house_config, "tint", <<1000, 1000, 1000>>)
    IN  [d EXCEPT
          !.scene.use_nodes = TRUE,
          !.scene.nodes =
             << [type |-> "R_LAYERS"],
                [type |-> "GLARE", mix |-> glare_mix,
                 threshold |-> comp_cfg.glare_threshold, size |-> comp_cfg.glare_size],
                [type |-> "CURVE_RGB"],
                [type |-> "COLORBALANCE",
                 gain |-> << 100000 + (tint[1] - 1000) * 5,
                             100000 + (tint[2] - 1000) * 5,
                             100000 + (tint[3] - 1000) * 5 >>],
                [type |-> "COMPOSITE"] >>]

\* clear_scene() and create_collections(): an empty file, default scene settings
clear_scene ==
    [ objects   |-> EmptyDict,
      materials |-> EmptyDict,
      filepath  |-> "",
      scene     |-> [ world_strength |-> 1000,
                      use_nodes      |-> FALSE,
                      nodes          |-> <<>>,
                      render         |-> EmptyDict,
                      cycles         |-> EmptyDict,
                      view_settings  |-> EmptyDict ] ]

Scale(color, num, den) == <<(color[1] * num) \div den, (color[2] * num) \div den,
                            (color[3] * num) \div den>>

\* the frame material with the upper bound of the roughness range
house_metal_materials_upper(d, house_name, house_config) ==
    LET metal_color ==
          IF "metal_color" \in DOMAIN house_config
          THEN house_config.metal_color
          ELSE Scale(Get(house_config, "secondary_color", <<500, 500, 500>>), 8, 10)
        metal_roughness   == Get(house_config, "metal_roughness", <<150, 250>>)[2]
        metal_anisotropic == Get(house_config, "metal_anisotropic", 300)
        frame_mat == create_metallic_material("MAT_Frame_" \o house_name, metal_color,
                                              950, metal_roughness, metal_anisotropic)
        base_mat  == create_metallic_material("MAT_Base_" \o house_name,
                                              Scale(metal_color, 3, 10), 900, 400, 0)
    IN  AddMaterial(AddMaterial(d, "MAT_Frame_" \o house_name, frame_mat),
                    "MAT_Base_" \o house_name, base_mat)

\* lines 1729-1750: the frame and base materials
house_metal_materials(d, house_name, house_config) ==
    LET metal_color ==
          IF "metal_color" \in DOMAIN house_config
          THEN house_config.metal_color
          ELSE Scale(Get(house_config, "secondary_color", <<500, 500, 500>>), 8, 10)
        metal_roughness   == Get(house_config, "metal_roughness", <<150, 250>>)[1]
        metal_anisotropic == Get(house_config, "metal_anisotropic", 300)
        frame_mat == create_metallic_material("MAT_Frame_" \o house_name, metal_color,
                                              950, metal_roughness, metal_anisotropic)
        base_mat  == create_metallic_material("MAT_Base_" \o house_name,
                                              Scale(metal_color, 3, 10), 900, 400, 0)
    IN  AddMaterial(AddMaterial(d, "MAT_Frame_" \o house_name, frame_mat),
                    "MAT_Base_" \o house_name, base_mat)

\* lines 1752-1814: the core material, dispatched on core_type
house_core_material(sockets, house_name, house_config) ==
    LET core_type == Get(house_config, "core_type", "glass")
        roughness == Get(house_config, "core_roughness", <<20, 40>>)[1]
        name      == "MAT_Core_" \o house_name
    IN  CASE core_type = "glass" ->
               create_glass_material(sockets, name,
                 Get(house_config, "primary_color", <<1000, 1000, 1000>>),
                 950, roughness,
                 Get(house_config, "core_ior", 1450),
                 Get(house_config, "core_dispersion", 0))
          [] core_type = "emissive_glass" ->
               LET emission_color == Get(house_config, "emission_color",
                                         <<1000, 1000, 1000>>)
                   es == Get(house_config, "emission_strength", Scalar(5000))
                   emission_strength == IF es.is_tuple THEN es.v[1] ELSE es.v
               IN  create_emissive_glass_material(name,
                     Get(house_config, "primary_color", <<1000, 1000, 1000>>),
                     emission_color, emission_strength, roughness,
                     Get(house_config, "core_ior", 1450))
          [] core_type = "frosted_glass" ->
               create_frosted_glass_material(name,
                 Get(house_config, "primary_color", <<900, 950, 1000>>),
                 roughness,
                 Get(house_config, "core_ior", 1310),
                 Get(house_config, "subsurface_color", <<>>),
                 Get(house_config, "subsurface_strength", 80),
                 Get(house_config, "edge_frost", FALSE))
          [] core_type = "iridescent_glass" ->
               create_iridescent_glass_material(name,
                 Get(house_config, "primary_color", <<900, 900, 1000>>),
                 roughness,
                 Get(house_config, "core_ior", 1480),
                 Get(house_config, "iridescence_strength", 150),
                 Get(house_config, "iridescence_shift", 300))
          [] core_type = "void" ->
               create_void_material(name,
                 Get(house_config, "core_base_color", <<20, 20, 20>>),
                 Get(house_config, "fresnel_emission_color", <<1000, 500, 200>>),
                 Get(house_config, "fresnel_emission_strength", 8000),
                 Get(house_config, "fresnel_ior", 2500),
                 Get(house_config, "fresnel_power", 3000))
          [] OTHER ->
               create_glass_material(sockets, name,
                 Get(house_config, "primary_color", <<1000, 1000, 1000>>),
                 950, roughness, 1450, 0)

\* lines 1860-1892: particles and energy rings
house_decorations(d, house_name, house_config) ==
    LET particle_color ==
          Get(house_config, "emission_color",
              Get(house_config, "accent_color", <<1000, 1000, 1000>>))
        ps == Get(house_config, "emission_strength", Scalar(3000))
        particle_strength == IF ps.is_tuple THEN ps.v[1] ELSE ps.v
        particle_mat == create_emission_material("MAT_Particles_" \o house_name,
                          particle_color, (particle_strength * 5) \div 10)
        d1 == AddObject(AddMaterial(d, "MAT_Particles_" \o house_name, particle_mat),
                        "Particles", MeshObject(<<"MAT_Particles_" \o house_name>>))
        ring_color == Get(house_config, "orbit_emission_color", particle_color)
        rs == Get(house_config, "orbit_emission_strength", Scalar(particle_strength))
        ring_strength == IF rs.is_tuple THEN rs.v[1] ELSE rs.v
        ring_mat == create_emission_material("MAT_Rings_" \o house_name,
                      ring_color, (ring_strength * 7) \div 10)
    IN  IF house_name \in {"THUNDER", "AURORA", "ECLIPSE"}
        THEN AddObject(AddMaterial(d1, "MAT_Rings_" \o house_name, ring_mat),
                       "EnergyRings", MeshObject(<<"MAT_Rings_" \o house_name>>))
        ELSE d1

\* str.lower on the house names
lower ==
    [h \in DOMAIN HOUSES |->
       CASE h = "CLEAR" -> "clear" [] h = "MONSOON" -> "monsoon"
         [] h = "THUNDER" -> "thunder" [] h = "FROST" -> "frost"
         [] h = "AURORA" -> "aurora" [] h = "SAND" -> "sand"
         [] h = "ECLIPSE" -> "eclipse"]

generate_house_template(sockets, house_name, house_config) ==
    LET d0 == house_metal_materials(clear_scene, house_name, house_config)
        d1 == AddMaterial(d0, "MAT_Core_" \o house_name,
                          house_core_material(sockets, house_name, house_config))
        d2 == AddObject(d1, "Core", MeshObject(<<"MAT_Core_" \o house_name>>))
        d3 == AddObject(d2, "Frame", MeshObject(<<"MAT_Frame_" \o house_name>>))
        d4 == AddObject(d3, "Base", MeshObject(<<"MAT_Base_" \o house_name>>))
        d5 == house_decorations(d4, house_name, house_config)
        d6 == setup_studio_lighting(d5, house_config)
        d7 == AddObject(d6, "Camera", [type |-> "CAMERA", hide_viewport |-> FALSE,
                                       hide_render |-> FALSE])
        d8 == setup_world(d7, house_config)
        d9 == setup_atmosphere(d8, house_config)
        d10 == setup_compositor(setup_render_settings(d9), house_config)
    IN  [d10 EXCEPT !.filepath = "house_" \o lower[house_name] \o ".blend"]
          @@ [engine_sockets |-> sockets]

-----------------------------------------------------------------------------
(* render_token.py: load_recipe and seed_random *)

RECURSIVE first_missing(_, _)
\* lines 28-30: the first required field, in order, that the recipe lacks; 0 if none
first_missing(recipe, i) ==
    IF i > Len(required_fields) THEN 0
    ELSE IF required_fields[i] \notin DOMAIN recipe THEN i
    ELSE first_missing(recipe, i + 1)

\* load_recipe without the validation loop
load_recipe_unchecked(file) == [recipe |-> file, raised |-> "", field |-> ""]

\* load_recipe whose list of required fields lacks its last entry
load_recipe_short_list(file) ==
    LET i == first_missing(file, 1)
    IN  IF i = 0 \/ i = Len(required_fields)
        THEN [recipe |-> file, raised |-> "", field |-> ""]
        ELSE [recipe |-> EmptyDict, raised |-> "ValueError", field |-> required_fields[i]]

\* file: the JSON object read from recipe_path.  The result is the recipe
\* returned, or the ValueError raised with the field its message names.
load_recipe(file) ==
    LET i == first_missing(file, 1)
    IN  IF i = 0
        THEN [recipe |-> file, raised |-> "", field |-> ""]
        ELSE [recipe |-> EmptyDict, raised |-> "ValueError", field |-> required_fields[i]]

\* a seed string is the sequence of its characters
HexValue ==
    [c \in {"0", "1", "2", "3", "4", "5", "6", "7", "8", "9",
            "a", "b", "c", "d", "e", "f", "A", "B", "C", "D", "E", "F"} |->
       CASE c = "0" -> 0 [] c = "1" -> 1 [] c = "2" -> 2 [] c = "3" -> 3
         [] c = "4" -> 4 [] c = "5" -> 5 [] c = "6" -> 6 [] c = "7" -> 7
         [] c = "8" -> 8 [] c = "9" -> 9
         [] c \in {"a", "A"} -> 10 [] c \in {"b", "B"} -> 11
         [] c \in {"c", "C"} -> 12 [] c \in {"d", "D"} -> 13
         [] c \in {"e", "E"} -> 14 [] c \in {"f", "F"} -> 15]

RECURSIVE strip_zeros(_)
strip_zeros(digits) ==
    IF Len(digits) > 1 /\ digits[1] = 0 THEN strip_zeros(Tail(digits)) ELSE digits

\* int(seed_hex, 16): an unbounded integer, kept as its hexadecimal digits, most
\* significant first, without leading zeros; ok = FALSE is the ValueError that
\* int raises on a string that is no hexadecimal numeral
int16(seed_hex) ==
    LET body == IF Len(seed_hex) >= 2 /\ seed_hex[1] = "0" /\ seed_hex[2] \in {"x", "X"}
                THEN SubSeq(seed_hex, 3, Len(seed_hex))
                ELSE seed_hex
        ok   == Len(body) > 0 /\ \A i \in 1..Len(body) : body[i] \in DOMAIN HexValue
    IN  [ ok     |-> ok,
          digits |-> IF ok THEN strip_zeros([i \in 1..Len(body) |-> HexValue[body[i]]])
                     ELSE <<>> ]

RECURSIVE mod_2_32(_, _, _, _)
\* n % (2**32) for the integer with hexadecimal digits `digits`, as the pair
\* <<high 16 bits, low 16 bits>>, folding the digits from the left
mod_2_32(digits, i, hi, lo) ==
    IF i > Len(digits) THEN <<hi, lo>>
    ELSE LET lo2 == lo * 16 + digits[i]
         IN  mod_2_32(digits, i + 1, (hi * 16 + lo2 \div 65536) % 65536, lo2 % 65536)

\* seed_random that passes seed_int itself to random.seed
seed_random_full_int(w, seed_hex) ==
    LET n == int16(seed_hex)
    IN  IF ~n.ok THEN w
        ELSE [w EXCEPT !.rng = [source |-> "seed", state |-> n.digits]]

\* random.seed(seed_int % (2**32)); the state of the stream after seeding is a
\* function of the integer it was seeded with
seed_random(w, seed_hex) ==
    LET n == int16(seed_hex)
    IN  IF ~n.ok THEN w
        ELSE [w EXCEPT !.rng = [source |-> "seed", state |-> mod_2_32(n.digits, 1, 0, 0)]]

-----------------------------------------------------------------------------
(* render_token.py: the lookups *)

\* get_material_params whose default is another entry of the table
get_material_params_other_default(frame_type) ==
    Get(frame_materials, frame_type, frame_materials["PolishedBrass"])

get_material_params(frame_type) ==
    Get(frame_materials, frame_type, frame_materials["BrushedSteel"])

\* get_core_material_params whose default is another entry of the table
get_core_material_params_other_default(core_material) ==
    Get(core_materials, core_material, core_materials["CloudGlass"])

get_core_material_params(core_material) ==
    Get(core_materials, core_material, core_materials["ClearCrystal"])

get_light_signature_params(signature) ==
    Get(signatures, signature, signatures["Sunbeam"])

-----------------------------------------------------------------------------
(* render_token.py: the configure steps.  w is the interpreter's state     *)
(* (bpy.data, the scene, the random module); a step yields the state after *)
(* it and, as `params`, the table entry it resolved.                       *)

SeqRange(seq) == {seq[i] : i \in 1..Len(seq)}

\* for node in nodes: if node.type == node_type: the nodes the body acts on
NodesOfType(mat, node_type) ==
    {i \in 1..Len(mat.nodes) : mat.nodes[i].type = node_type}

\* materials[0] = mat if the object has a material slot, else materials.append(mat)
AssignMaterial(obj, mat_name) ==
    IF Len(obj.materials) > 0
    THEN [obj EXCEPT !.materials[1] = mat_name]
    ELSE [obj EXCEPT !.materials = <<mat_name>>]

\* apply_surface_aging that adds nothing
apply_surface_aging_pristine(material, aging_type) == material

apply_surface_aging(material, aging_type) ==
    LET params == Get(aging_params, aging_type, aging_params["Pristine"])
        Age(node) == [node EXCEPT !.Roughness = Min(1000, @ + params.roughness_add)]
    IN  IF material.use_nodes
        THEN [material EXCEPT !.nodes = [i \in DOMAIN material.nodes |->
                IF i \in NodesOfType(material, "BSDF_PRINCIPLED")
                THEN Age(material.nodes[i])
                ELSE material.nodes[i]]]
        ELSE material

\* configure_frame_material that sets the parameters only when the recipe names
\* a frame type
configure_frame_material_keyed(w, traits) ==
    LET frame_type == Get(traits, "FrameType", "BrushedSteel")
        params     == get_material_params(frame_type)
        mat_name   == "MAT_Frame_" \o frame_type
        mat        == Get(w.materials, mat_name, NewMaterial)
        Paint(node) == [node EXCEPT !.BaseColor = params.color,
                                    !.Metallic  = params.metallic,
                                    !.Roughness = params.roughness]
        painted    == IF "FrameType" \in DOMAIN traits
                      THEN [mat EXCEPT !.nodes = [i \in DOMAIN mat.nodes |->
                              IF i \in NodesOfType(mat, "BSDF_PRINCIPLED")
                              THEN Paint(mat.nodes[i])
                              ELSE mat.nodes[i]]] ELSE mat
        aging      == Get(traits, "SurfaceAging", "Pristine")
        aged       == apply_surface_aging(painted, aging)
    IN  IF "Frame" \notin DOMAIN w.objects
        THEN [w |-> w, params |-> EmptyDict]
        ELSE [w |-> [w EXCEPT
                       !.materials = (mat_name :> aged) @@ w.materials,
                       !.objects["Frame"] = AssignMaterial(@, mat_name)],
              params |-> params]

\* configure_frame_material that sets the roughness of a new material only and
\* ages the roughness an existing material already has
configure_frame_material_accumulating(w, traits) ==
    LET frame_type == Get(traits, "FrameType", "BrushedSteel")
        params     == get_material_params(frame_type)
        mat_name   == "MAT_Frame_" \o frame_type
        mat        == Get(w.materials, mat_name, NewMaterial)
        Paint(node) == [node EXCEPT !.BaseColor = params.color,
                                    !.Metallic  = params.metallic,
                                    !.Roughness = IF mat_name \in DOMAIN w.materials
                                                  THEN @ ELSE params.roughness]
        painted    == [mat EXCEPT !.nodes = [i \in DOMAIN mat.nodes |->
                IF i \in NodesOfType(mat, "BSDF_PRINCIPLED")
                THEN Paint(mat.nodes[i])
                ELSE mat.nodes[i]]]
        aging      == Get(traits, "SurfaceAging", "Pristine")
        aged       == apply_surface_aging(painted, aging)
    IN  IF "Frame" \notin DOMAIN w.objects
        THEN [w |-> w, params |-> EmptyDict]
        ELSE [w |-> [w EXCEPT
                       !.materials = (mat_name :> aged) @@ w.materials,
                       !.objects["Frame"] = AssignMaterial(@, mat_name)],
              params |-> params]

configure_frame_material(w, traits) ==
    LET frame_type == Get(traits, "FrameType", "BrushedSteel")
        params     == get_material_params(frame_type)
        mat_name   == "MAT_Frame_" \o frame_type
        mat        == Get(w.materials, mat_name, NewMaterial)
        Paint(node) == [node EXCEPT !.BaseColor = params.color,
                                    !.Metallic  = params.metallic,
                                    !.Roughness = params.roughness]
        painted    == [mat EXCEPT !.nodes = [i \in DOMAIN mat.nodes |->
                IF i \in NodesOfType(mat, "BSDF_PRINCIPLED")
                THEN Paint(mat.nodes[i])
                ELSE mat.nodes[i]]]
        aging      == Get(traits, "SurfaceAging", "Pristine")
        aged       == apply_surface_aging(painted, aging)
    IN  IF "Frame" \notin DOMAIN w.objects
        THEN [w |-> w, params |-> EmptyDict]
        ELSE [w |-> [w EXCEPT
                       !.materials = (mat_name :> aged) @@ w.materials,
                       !.objects["Frame"] = AssignMaterial(@, mat_name)],
              params |-> params]

\* configure_core_material without the emission branch
configure_core_material_no_emission(w, traits) ==
    LET core_type == Get(traits, "CoreMaterial", "ClearCrystal")
        params    == get_core_material_params(core_type)
        mat_name  == "MAT_Core_" \o core_type
        mat       == Get(w.materials, mat_name, NewMaterial)
        Paint(node) == [node EXCEPT
                          !.BaseColor = params.color,
                          !.Roughness = params.roughness,
                          !.TransmissionWeight = Get(params, "transmission", 0),
                          !.Metallic = Get(params, "metallic", 0)]
    IN  IF "Core" \notin DOMAIN w.objects
        THEN [w |-> w, params |-> EmptyDict]
        ELSE [w |-> [w EXCEPT
                       !.materials = (mat_name :> [mat EXCEPT !.nodes = [i \in DOMAIN mat.nodes |->
                               IF i \in NodesOfType(mat, "BSDF_PRINCIPLED")
                               THEN Paint(mat.nodes[i])
                               ELSE mat.nodes[i]]]) @@ w.materials,
                       !.objects["Core"] = AssignMaterial(@, mat_name)],
              params |-> params]

\* configure_core_material that draws the roughness from the random stream
configure_core_material_jitter(w, traits) ==
    LET core_type == Get(traits, "CoreMaterial", "ClearCrystal")
        params    == get_core_material_params(core_type)
        mat_name  == "MAT_Core_" \o core_type
        mat       == Get(w.materials, mat_name, NewMaterial)
        draw      == w.rng.state[Len(w.rng.state)] % 2
        Paint(node) ==
          LET base == [node EXCEPT
                         !.BaseColor = params.color,
                         !.Roughness = params.roughness + draw,
                         !.TransmissionWeight = Get(params, "transmission", 0),
                         !.Metallic = Get(params, "metallic", 0)]
          IN  IF Get(params, "emission", 0) > 0
              THEN [base EXCEPT !.EmissionStrength = params.emission,
                                !.EmissionColor = params.color]
              ELSE base
    IN  IF "Core" \notin DOMAIN w.objects
        THEN [w |-> w, params |-> EmptyDict]
        ELSE [w |-> [w EXCEPT
                       !.materials = (mat_name :> [mat EXCEPT !.nodes = [i \in DOMAIN mat.nodes |->
                               IF i \in NodesOfType(mat, "BSDF_PRINCIPLED")
                               THEN Paint(mat.nodes[i])
                               ELSE mat.nodes[i]]])
                                       @@ w.materials,
                       !.objects["Core"] = AssignMaterial(@, mat_name),
                       !.rng.state = Append(@, draw)],
              params |-> params]

configure_core_material(w, traits) ==
    LET core_type == Get(traits, "CoreMaterial", "ClearCrystal")
        params    == get_core_material_params(core_type)
        mat_name  == "MAT_Core_" \o core_type
        mat       == Get(w.materials, mat_name, NewMaterial)
        Paint(node) ==
          LET base == [node EXCEPT
                         !.BaseColor = params.color,
                         !.Roughness = params.roughness,
                         !.TransmissionWeight = Get(params, "transmission", 0),
                         !.Metallic = Get(params, "metallic", 0)]
          IN  IF Get(params, "emission", 0) > 0
              THEN [base EXCEPT !.EmissionStrength = params.emission,
                                !.EmissionColor = params.color]
              ELSE base
    IN  IF "Core" \notin DOMAIN w.objects
        THEN [w |-> w, params |-> EmptyDict]
        ELSE [w |-> [w EXCEPT
                       !.materials = (mat_name :> [mat EXCEPT !.nodes = [i \in DOMAIN mat.nodes |->
                               IF i \in NodesOfType(mat, "BSDF_PRINCIPLED")
                               THEN Paint(mat.nodes[i])
                               ELSE mat.nodes[i]]])
                                       @@ w.materials,
                       !.objects["Core"] = AssignMaterial(@, mat_name)],
              params |-> params]

configure_geometry(w, traits) ==
    LET geometry_type == Get(traits, "DioramaGeometry", "Sphere")
        target_name   == "Geo_" \o geometry_type
        hidden == [n \in DOMAIN w.objects |->
                     IF n \in SeqRange(geometry_objects)
                     THEN [w.objects[n] EXCEPT !.hide_viewport = TRUE, !.hide_render = TRUE]
                     ELSE w.objects[n]]
    IN  [w |-> [w EXCEPT !.objects =
                  IF target_name \in DOMAIN hidden
                  THEN [hidden EXCEPT ![target_name].hide_viewport = FALSE,
                                      ![target_name].hide_render = FALSE]
                  ELSE hidden],
         params |-> [geometry_type |-> geometry_type]]

RECURSIVE adjust_materials(_, _, _, _)
\* lines 211-217: for mat in obj.data.materials, in slot order
adjust_materials(materials, slots, i, multiplier) ==
    IF i > Len(slots) THEN materials
    ELSE LET name == slots[i]
             Scale1(node) == [node EXCEPT !.Strength = (@ * multiplier) \div 100]
         IN  IF name \notin DOMAIN materials \/ ~materials[name].use_nodes
             THEN adjust_materials(materials, slots, i + 1, multiplier)
             ELSE adjust_materials(
                    [materials EXCEPT ![name] =
                       [materials[name] EXCEPT !.nodes =
                          [n \in DOMAIN materials[name].nodes |->
                            IF n \in NodesOfType(materials[name], "EMISSION")
                            THEN Scale1(materials[name].nodes[n])
                            ELSE materials[name].nodes[n]]]],
                    slots, i + 1, multiplier)

\* the materials after adjust_emission_plane_strength(obj, multiplier); the
\* multiplier is in hundredths
adjust_emission_plane_strength(w, obj_name, multiplier) ==
    LET obj == w.objects[obj_name]
    IN  IF "materials" \notin DOMAIN obj \/ Len(obj.materials) = 0
        THEN w
        ELSE [w EXCEPT !.materials = adjust_materials(w.materials, obj.materials, 1,
                                                      multiplier)]

\* the resolution without the house-default table
resolve_light_signature_no_house(traits, house_key) ==
    LET light_signature == Get(traits, "LightSignature", "")
    IN  IF light_signature = "" THEN "Sunbeam" ELSE light_signature

\* the resolution that sends a value the signature table lacks to the house's
\* default
resolve_light_signature_unknown_to_house(traits, house_key) ==
    LET light_signature == Get(traits, "LightSignature", "")
    IN  IF light_signature \notin DOMAIN signatures
        THEN Get(house_defaults, house_key, "Sunbeam")
        ELSE light_signature

\* lines 235-249: traits.get("LightSignature") is None when the key is absent;
\* None and the empty string are both false
resolve_light_signature(traits, house_key) ==
    LET light_signature == Get(traits, "LightSignature", "")
    IN  IF light_signature = ""
        THEN Get(house_defaults, house_key, "Sunbeam")
        ELSE light_signature

\* recolor_light that also recolours the emission of a plane
recolor_light_planes_too(w, light_name, color) ==
    IF light_name \notin DOMAIN w.objects THEN w
    ELSE IF w.objects[light_name].type = "LIGHT"
         THEN [w EXCEPT !.objects[light_name].color = color]
    ELSE IF w.objects[light_name].type = "MESH"
         THEN [w EXCEPT !.materials =
                 [m \in DOMAIN w.materials |->
                    IF m \in SeqRange(w.objects[light_name].materials)
                    THEN [w.materials[m] EXCEPT !.nodes =
                            [i \in DOMAIN w.materials[m].nodes |->
                               IF i \in NodesOfType(w.materials[m], "EMISSION")
                               THEN [w.materials[m].nodes[i] EXCEPT !.Color = color]
                               ELSE w.materials[m].nodes[i]]]
                    ELSE w.materials[m]]]
    ELSE w

\* lines 261-269
recolor_light(w, light_name, color) ==
    IF light_name \in DOMAIN w.objects /\ w.objects[light_name].type = "LIGHT"
    THEN [w EXCEPT !.objects[light_name].color = color]
    ELSE w

\* configure_lights that applies the multiplier to the Fill light as well
configure_lights_fill_scaled(w, traits, house_key) ==
    LET params == get_light_signature_params(resolve_light_signature(traits, house_key))
        Scaled(v, name) ==
            IF name \notin DOMAIN v.objects THEN v
            ELSE IF v.objects[name].type = "LIGHT"
                 THEN [v EXCEPT !.objects[name].energy = (@ * params.energy_mult) \div 100]
            ELSE IF v.objects[name].type = "MESH"
                 THEN adjust_emission_plane_strength(v, name, params.energy_mult)
            ELSE v
        w1 == Scaled(Scaled(w, "Light_Key"), "Light_Fill")
        w2 == recolor_light(w1, "Light_Accent", params.accent_color)
    IN  [w |-> recolor_light(w2, "Light_Fill", params.accent_color), params |-> params]

\* configure_lights that perturbs the multiplier with entropy of the operating
\* system
configure_lights_unseeded(w, traits, house_key) ==
    LET entry  == get_light_signature_params(resolve_light_signature(traits, house_key))
        params == [entry EXCEPT !.energy_mult = @ + w.urandom]
        w1 == IF "Light_Key" \notin DOMAIN w.objects THEN w
              ELSE IF w.objects["Light_Key"].type = "LIGHT"
                   THEN [w EXCEPT !.objects["Light_Key"].energy =
                                     (@ * params.energy_mult) \div 100]
              ELSE IF w.objects["Light_Key"].type = "MESH"
                   THEN adjust_emission_plane_strength(w, "Light_Key", params.energy_mult)
              ELSE w
        w2 == recolor_light(w1, "Light_Accent", params.accent_color)
    IN  [w |-> recolor_light(w2, "Light_Fill", params.accent_color), params |-> params]

configure_lights(w, traits, house_key) ==
    LET params == get_light_signature_params(resolve_light_signature(traits, house_key))
        w1 == IF "Light_Key" \notin DOMAIN w.objects THEN w
              ELSE IF w.objects["Light_Key"].type = "LIGHT"
                   THEN [w EXCEPT !.objects["Light_Key"].energy =
                                     (@ * params.energy_mult) \div 100]
              ELSE IF w.objects["Light_Key"].type = "MESH"
                   THEN adjust_emission_plane_strength(w, "Light_Key", params.energy_mult)
              ELSE w
        w2 == recolor_light(w1, "Light_Accent", params.accent_color)
    IN  [w |-> recolor_light(w2, "Light_Fill", params.accent_color), params |-> params]

\* the settings are looked up and not applied (line 296)
configure_atmosphere(w, traits) ==
    LET atmosphere == Get(traits, "Atmosphere", "Clear")
        settings   == Get(atmosphere_settings, atmosphere, atmosphere_settings["Clear"])
    IN  [w |-> w, params |-> settings]

configure_lens_bloom(w, traits) ==
    LET bloom_type == Get(traits, "LensBloom", "Subtle")
        settings   == Get(bloom_settings, bloom_type, bloom_settings["Subtle"])
        SetGlare(node) == [node EXCEPT !.threshold = Get(settings, "threshold", 800),
                                       !.size = Get(settings, "size", 7),
                                       !.mix = Get(settings, "mix", 0)]
    IN  IF ~Get(settings, "enabled", TRUE) \/ ~w.scene.use_nodes
        THEN [w |-> w, params |-> settings]
        ELSE [w |-> [w EXCEPT !.scene.nodes =
                       [i \in 1..Len(w.scene.nodes) |->
                          IF w.scene.nodes[i].type = "GLARE"
                          THEN SetGlare(w.scene.nodes[i]) ELSE w.scene.nodes[i]]],
              params |-> settings]

apply_palette_temperature(w, traits) ==
    LET temp     == Get(traits, "PaletteTemperature", "Neutral")
        settings == Get(temp_settings, temp, temp_settings["Neutral"])
    IN  [w |-> [w EXCEPT !.scene.view_settings.exposure = settings.exposure],
         params |-> settings]

\* configure_render_settings that sets the per-type bounces to their usual
\* values whatever maxBounces is
configure_render_settings_unclamped(w, render_settings) ==
    LET engine      == Get(render_settings, "engine", "CYCLES")
        max_bounces == Get(render_settings, "maxBounces", 6)
        c0 == w.scene.cycles
        c1 == [c0 EXCEPT !.device = "GPU",
                         !.samples = Get(render_settings, "samples", 96)]
        c2 == IF Get(render_settings, "denoise", TRUE)
              THEN [c1 EXCEPT !.use_denoising = TRUE, !.denoiser = "OPENIMAGEDENOISE"]
              ELSE c1
        c3 == IF Get(render_settings, "adaptiveSampling", TRUE)
              THEN [c2 EXCEPT !.use_adaptive_sampling = TRUE, !.adaptive_threshold = 15]
              ELSE c2
        c4 == [c3 EXCEPT !.max_bounces = max_bounces,
                         !.diffuse_bounces = 2,
                         !.glossy_bounces = 3,
                         !.transmission_bounces = 6,
                         !.volume_bounces = 2]
    IN  [w EXCEPT !.scene.render.engine = engine,
                  !.scene.cycles = IF engine = "CYCLES" THEN c4 ELSE c0]

\* the GPU preferences of lines 312-319 are not part of the scene
configure_render_settings(w, render_settings) ==
    LET engine      == Get(render_settings, "engine", "CYCLES")
        max_bounces == Get(render_settings, "maxBounces", 6)
        c0 == w.scene.cycles
        c1 == [c0 EXCEPT !.device = "GPU",
                         !.samples = Get(render_settings, "samples", 96)]
        c2 == IF Get(render_settings, "denoise", TRUE)
              THEN [c1 EXCEPT !.use_denoising = TRUE, !.denoiser = "OPENIMAGEDENOISE"]
              ELSE c1
        c3 == IF Get(render_settings, "adaptiveSampling", TRUE)
              THEN [c2 EXCEPT !.use_adaptive_sampling = TRUE, !.adaptive_threshold = 15]
              ELSE c2
        c4 == [c3 EXCEPT !.max_bounces = max_bounces,
                         !.diffuse_bounces = Min(2, max_bounces),
                         !.glossy_bounces = Min(3, max_bounces),
                         !.transmission_bounces = Min(6, max_bounces),
                         !.volume_bounces = Min(2, max_bounces)]
    IN  [w EXCEPT !.scene.render.engine = engine,
                  !.scene.cycles = IF engine = "CYCLES" THEN c4 ELSE c0]

\* quality and compression belong to the image settings and are left out
configure_output(w, output_settings, output_path) ==
    [w EXCEPT !.scene.render.resolution_x = Get(output_settings, "width", 1024),
              !.scene.render.resolution_y = Get(output_settings, "height", 1024),
              !.scene.render.resolution_percentage = 100,
              !.scene.render.file_format = Get(output_settings, "format", "WEBP"),
              !.scene.render.film_transparent =
                 Get(output_settings, "transparentBackground", FALSE),
              !.scene.render.filepath = output_path]

-----------------------------------------------------------------------------
(* render_token.py: main and render_token, one action per statement.       *)
(* thr[t].ops lists the engine operations (seeding, configure steps,       *)
(* render) that the execution has performed so far.                        *)

Threads == {1, 2}

NoExc == [type |-> "", field |-> ""]

\* after a step of thread t: its interpreter's state, its position, the entry
\* the step resolved, the operation performed
Advance(t, w, pc, params, op) ==
    /\ world' = [world EXCEPT ![thr[t].host] = w]
    /\ thr' = [thr EXCEPT ![t].pc = pc, ![t].params = params,
                          ![t].ops = Append(@, op)]

\* an exception leaves main: the process ends with a traceback
Raise(t, w, type, field) ==
    /\ world' = [world EXCEPT ![thr[t].host] = w]
    /\ thr' = [thr EXCEPT ![t].pc = "raised", ![t].exc = [type |-> type, field |-> field]]

\* the first key of `keys` that the recipe lacks: recipe[key] raises KeyError
RECURSIVE missing_key(_, _, _)
missing_key(recipe, keys, i) ==
    IF i > Len(keys) THEN ""
    ELSE IF keys[i] \notin DOMAIN recipe THEN keys[i]
    ELSE missing_key(recipe, keys, i + 1)

RECURSIVE index_of(_, _, _)
index_of(seq, x, i) ==
    IF i > Len(seq) THEN 0 ELSE IF seq[i] = x THEN i ELSE index_of(seq, x, i + 1)

\* lines 446-460
Main(t) ==
    /\ thr[t].pc = "main"
    /\ LET i    == index_of(thr[t].sys_argv, "--", 1)
           argv == SubSeq(thr[t].sys_argv, i + 1, Len(thr[t].sys_argv))
       IN  IF i = 0 \/ Len(argv) < 2
           THEN thr' = [thr EXCEPT ![t].pc = "exit1"]
           ELSE thr' = [thr EXCEPT ![t].pc = "load", ![t].recipe_path = argv[1],
                                   ![t].output_path = argv[2]]
    /\ UNCHANGED world

\* line 463
LoadRecipe(t) ==
    /\ thr[t].pc = "load"
    /\ LET res == load_recipe(thr[t].files[thr[t].recipe_path])
       IN  IF res.raised # ""
           THEN thr' = [thr EXCEPT ![t].pc = "raised",
                                   ![t].exc = [type |-> res.raised, field |-> res.field]]
           ELSE thr' = [thr EXCEPT ![t].pc = "seed", ![t].recipe = res.recipe,
                                   ![t].loaded = TRUE]
    /\ UNCHANGED world

\* lines 417-423
SeedRandom(t) ==
    /\ thr[t].pc = "seed"
    /\ LET recipe == thr[t].recipe
           w      == world[thr[t].host]
           early  == missing_key(recipe, <<"tokenId", "seed">>, 1)
           late   == missing_key(recipe, <<"traits", "houseKey">>, 1)
       IN  IF early # "" THEN Raise(t, w, "KeyError", early)
           ELSE IF ~int16(recipe.seed).ok THEN Raise(t, w, "ValueError", "seed")
           ELSE IF late # ""
                THEN /\ world' = [world EXCEPT ![thr[t].host] = seed_random(w, recipe.seed)]
                     /\ thr' = [thr EXCEPT ![t].pc = "raised",
                                           ![t].exc = [type |-> "KeyError", field |-> late],
                                           ![t].ops = Append(@, "seed_random")]
           ELSE Advance(t, seed_random(w, recipe.seed), "geometry", EmptyDict,
                        "seed_random")

ConfigureStep(t, pc, next, res) ==
    /\ thr[t].pc = pc
    /\ Advance(t, res.w, next, res.params, pc)

ConfigureGeometry(t) ==
    ConfigureStep(t, "geometry", "frame",
                  configure_geometry(world[thr[t].host], thr[t].recipe.traits))

ConfigureFrameMaterial(t) ==
    ConfigureStep(t, "frame", "core",
                  configure_frame_material(world[thr[t].host], thr[t].recipe.traits))

ConfigureCoreMaterial(t) ==
    ConfigureStep(t, "core", "lights",
                  configure_core_material(world[thr[t].host], thr[t].recipe.traits))

ConfigureLights(t) ==
    ConfigureStep(t, "lights", "atmosphere",
                  configure_lights(world[thr[t].host], thr[t].recipe.traits,
                                   thr[t].recipe.houseKey))

ConfigureAtmosphere(t) ==
    ConfigureStep(t, "atmosphere", "bloom",
                  configure_atmosphere(world[thr[t].host], thr[t].recipe.traits))

ConfigureLensBloom(t) ==
    ConfigureStep(t, "bloom", "palette",
                  configure_lens_bloom(world[thr[t].host], thr[t].recipe.traits))

ApplyPaletteTemperature(t) ==
    ConfigureStep(t, "palette", "render_settings",
                  apply_palette_temperature(world[thr[t].host], thr[t].recipe.traits))

\* line 435
ConfigureRenderSettings(t) ==
    /\ thr[t].pc = "render_settings"
    /\ LET w == world[thr[t].host]
       IN  IF "renderSettings" \notin DOMAIN thr[t].recipe
           THEN Raise(t, w, "KeyError", "renderSettings")
           ELSE Advance(t, configure_render_settings(w, thr[t].recipe.renderSettings),
                        "output", thr[t].params, "render_settings")

\* line 436
ConfigureOutput(t) ==
    /\ thr[t].pc = "output"
    /\ LET w == world[thr[t].host]
       IN  IF "output" \notin DOMAIN thr[t].recipe
           THEN Raise(t, w, "KeyError", "output")
           ELSE Advance(t, configure_output(w, thr[t].recipe.output, thr[t].output_path),
                        "render", thr[t].params, "output")

\* lines 440-443 and 466-471: bpy.ops.render.render(write_still=True)
Render(t) ==
    /\ thr[t].pc = "render"
    /\ Advance(t, [world[thr[t].host] EXCEPT !.renders = @ + 1], "done",
               thr[t].params, "render")

Next ==
    \E t \in Threads :
        \/ Main(t)
        \/ LoadRecipe(t)
        \/ SeedRandom(t)
        \/ ConfigureGeometry(t)
        \/ ConfigureFrameMaterial(t)
        \/ ConfigureCoreMaterial(t)
        \/ ConfigureLights(t)
        \/ ConfigureAtmosphere(t)
        \/ ConfigureLensBloom(t)
        \/ ApplyPaletteTemperature(t)
        \/ ConfigureRenderSettings(t)
        \/ ConfigureOutput(t)
        \/ Render(t)

-----------------------------------------------------------------------------
(* The inputs: the template file the renderer is started on, the command   *)
(* line and the recipe file.                                               *)

HouseNames == DOMAIN HOUSES

\* a trait value that none of the tables holds
Unknown == "Nonexistent"

\* the engine's Principled node has, or lacks, the optional Dispersion socket
SocketChoices == {{}, {"Dispersion"}}

\* a Python interpreter that has opened the .blend file d; `import random`
\* seeds the module's generator from the entropy u of the operating system
Interp(d, u) ==
    d @@ [rng |-> [source |-> "os", state |-> <<u>>], urandom |-> u, renders |-> 0]

\* a template with the six geometry variants added, those of `hidden` hidden
WithGeometry(d, hidden) ==
    [d EXCEPT !.objects =
       [n \in SeqRange(geometry_objects) |->
          [MeshObject(<<>>) EXCEPT !.hide_viewport = (n \in hidden),
                                   !.hide_render = (n \in hidden)]] @@ d.objects]

\* a template in which the objects of `names` are light objects (bpy.types.Light
\* data) rather than emission planes
WithStudioLights(d, names) ==
    [d EXCEPT !.objects =
       [n \in names |->
          [type |-> "LIGHT", light_type |-> "AREA", energy |-> 1000000,
           color |-> <<1000, 1000, 1000>>,
           hide_viewport |-> FALSE, hide_render |-> FALSE]] @@ d.objects]

StudioLightPatterns ==
    { {"Light_Key", "Light_Fill", "Light_Accent"}, {"Light_Key"}, {"Light_Accent"} }

GeometryPatterns ==
    { {}, SeqRange(geometry_objects), SeqRange(geometry_objects) \ {"Geo_Sphere"},
      SeqRange(geometry_objects) \ {"Geo_Cube"}, {"Geo_Sphere", "Geo_Prism"} }

Template(sockets, house_name) ==
    generate_house_template(sockets, house_name, HOUSES[house_name])

BaseRecipe ==
    [ tokenId        |-> "1",
      houseKey       |-> "CLEAR",
      seed           |-> <<"0", "x", "A", "1">>,
      traits         |-> EmptyDict,
      output         |-> [width |-> 1024, height |-> 1024, format |-> "WEBP",
                          quality |-> 90, transparentBackground |-> FALSE],
      renderSettings |-> [engine |-> "CYCLES", samples |-> 96, denoise |-> TRUE,
                          adaptiveSampling |-> TRUE, maxBounces |-> 6] ]

OneTrait(key, values) == {(key :> v) : v \in values}

TraitChoices ==
    {EmptyDict}
    \cup OneTrait("FrameType", DOMAIN frame_materials \cup {Unknown})
    \cup OneTrait("CoreMaterial", DOMAIN core_materials \cup {Unknown})
    \cup OneTrait("SurfaceAging", DOMAIN aging_params \cup {Unknown})
    \cup OneTrait("DioramaGeometry",
                  {"Capsule", "Obelisk", "Cube", "Sphere", "Prism", "BarometerAssembly",
                   Unknown})
    \cup OneTrait("LightSignature", DOMAIN signatures \cup {Unknown, ""})
    \cup OneTrait("Atmosphere", DOMAIN atmosphere_settings \cup {Unknown})
    \cup OneTrait("LensBloom", DOMAIN bloom_settings \cup {Unknown})
    \cup OneTrait("PaletteTemperature", DOMAIN temp_settings \cup {Unknown})
    \cup { [FrameType |-> f, SurfaceAging |-> a] :
             f \in DOMAIN frame_materials \cup {Unknown},
             a \in DOMAIN aging_params \cup {Unknown} }
    \cup { [CoreMaterial |-> "FrozenPlasma", FrameType |-> "WhiteGold",
            SurfaceAging |-> "AncientRelic"] }

LightTraitChoices ==
    {EmptyDict} \cup OneTrait("LightSignature", {"", "Sunbeam", "RingRim", Unknown})

GeometryTraitChoices ==
    {EmptyDict}
    \cup OneTrait("DioramaGeometry", {"Capsule", "Cube", "Sphere", "BarometerAssembly",
                                      Unknown})

SeedChoices ==
    { <<"0", "x", "1">>,
      <<"0", "x", "1", "0", "0", "0", "0", "0", "0", "0", "1">>,
      <<"a", "1">>,
      <<"0", "x", "F", "F", "F", "F", "F", "F", "F", "F">>,
      <<"0", "x", "2", "F", "F", "F", "F", "F", "F", "F", "F">>,
      <<"0", "x", "0", "0", "0", "1">>,
      <<"0", "x">>,
      <<"s", "e", "e", "d">> }

ArgvChoices ==
    { <<"blender", "-b", "house.blend", "-P", "render_token.py">>,
      <<"blender", "-b", "house.blend", "-P", "render_token.py", "--", "recipe.json">>,
      <<"blender", "-b", "house.blend", "-P", "render_token.py", "--", "recipe.json",
        "out.webp">> }

\* the renderSettings object of a recipe
RenderSettingsChoices ==
    { [engine |-> e, maxBounces |-> b] :
        e \in {"CYCLES", "BLENDER_EEVEE"}, b \in 0..MaxBounces }
    \cup { [maxBounces |-> b] : b \in 0..MaxBounces }
    \cup { EmptyDict, [engine |-> "CYCLES", samples |-> 32, denoise |-> FALSE] }

GoodArgv ==
    <<"blender", "-b", "house.blend", "-P", "render_token.py", "--", "recipe.json",
      "out.webp">>

\* an execution of main() about to start, in interpreter `host`
Start(host, sys_argv, file) ==
    [ pc |-> "main", host |-> host, sys_argv |-> sys_argv,
      files |-> [f \in {"recipe.json"} |-> file],
      recipe_path |-> "", output_path |-> "",
      recipe |-> EmptyDict, loaded |-> FALSE,
      exc |-> NoExc, params |-> EmptyDict, ops |-> <<>> ]

\* no second execution: an interpreter that runs nothing
Idle == [Start(2, <<>>, EmptyDict) EXCEPT !.pc = "idle"]

\* the runs of one renderer: a template and a recipe file
Inputs ==
    \* recipes that lack fields, every command line
    { [d |-> Template({}, "CLEAR"), argv |-> a, file |-> Restrict(BaseRecipe, S)] :
        a \in ArgvChoices, S \in SUBSET SeqRange(required_fields) }
    \* every house on its own template, every choice of traits
    \cup { [d |-> Template(so, h), argv |-> GoodArgv,
            file |-> [BaseRecipe EXCEPT !.houseKey = h, !.traits = tr]] :
             so \in SocketChoices, h \in HouseNames, tr \in TraitChoices }
    \* a house key that is not the template's, or is no house
    \cup { [d |-> Template({}, tm), argv |-> GoodArgv,
            file |-> [BaseRecipe EXCEPT !.houseKey = h, !.traits = tr]] :
             tm \in {"CLEAR", "THUNDER"}, h \in HouseNames \cup {"UNKNOWN"},
             tr \in LightTraitChoices }
    \* templates that hold the geometry variants
    \cup { [d |-> WithGeometry(Template({}, "CLEAR"), hidden), argv |-> GoodArgv,
            file |-> [BaseRecipe EXCEPT !.traits = tr]] :
             hidden \in GeometryPatterns, tr \in GeometryTraitChoices }
    \* templates whose lights are light objects
    \cup { [d |-> WithStudioLights(Template({}, "CLEAR"), names), argv |-> GoodArgv,
            file |-> [BaseRecipe EXCEPT !.traits = tr]] :
             names \in StudioLightPatterns, tr \in LightTraitChoices }
    \* seeds
    \cup { [d |-> Template({}, "CLEAR"), argv |-> GoodArgv,
            file |-> [BaseRecipe EXCEPT !.seed = sd]] : sd \in SeedChoices }
    \* render settings
    \cup { [d |-> Template({}, "CLEAR"), argv |-> GoodArgv,
            file |-> [BaseRecipe EXCEPT !.renderSettings = rs]] :
             rs \in RenderSettingsChoices }

Init ==
    \E in \in Inputs, u \in 0..MaxEntropy :
        /\ world = [h \in Threads |-> IF h = 1 THEN Interp(in.d, u)
                                      ELSE Interp(clear_scene, 0)]
        /\ thr = [t \in Threads |-> IF t = 1 THEN Start(1, in.argv, in.file) ELSE Idle]

Spec == Init /\ [][Next]_vars

-----------------------------------------------------------------------------
(* Two independent runs: two processes, each with its own interpreter, each *)
(* started on its own copy of the same template file.                      *)

PairTemplates == {<<"CLEAR", "CLEAR">>, <<"THUNDER", "THUNDER">>, <<"CLEAR", "UNKNOWN">>}

PairTraitChoices ==
    { EmptyDict,
      [FrameType |-> "PolishedBrass"],
      [FrameType |-> Unknown, SurfaceAging |-> "WeatheredGrace"],
      [CoreMaterial |-> "FrozenPlasma"],
      [LightSignature |-> "RingRim"],
      [LensBloom |-> "Intense", PaletteTemperature |-> "Warm"],
      [DioramaGeometry |-> "Cube", Atmosphere |-> "MistVeil"],
      [LensBloom |-> "None", LightSignature |-> ""] }

FirstSeeds == { <<"0", "x", "1">>, <<"0", "x", "2">> }

SecondSeeds ==
    { <<"0", "x", "1">>,
      <<"0", "x", "1", "0", "0", "0", "0", "0", "0", "0", "1">>,
      <<"0", "x", "2">> }

PairRecipe(token_id, house_key, traits, seed) ==
    [BaseRecipe EXCEPT !.tokenId = token_id, !.houseKey = house_key,
                       !.traits = traits, !.seed = seed]

InitPair ==
    \E th \in PairTemplates, tr \in PairTraitChoices,
       s1 \in FirstSeeds, s2 \in SecondSeeds, id \in {"1", "2"},
       u \in 0..MaxEntropy :
        /\ world = [h \in Threads |->
                      Interp(Template({}, th[1]), IF h = 1 THEN 0 ELSE u)]
        /\ thr = [t \in Threads |->
                    Start(t, GoodArgv,
                          IF t = 1 THEN PairRecipe("1", th[2], tr, s1)
                          ELSE PairRecipe(id, th[2], tr, s2))]

SpecPair == InitPair /\ [][Next]_vars

-----------------------------------------------------------------------------
(* What a run leaves behind, read off the interpreter's state.             *)

InOps(t, op) == \E i \in 1..Len(thr[t].ops) : thr[t].ops[i] = op

Done(t) == thr[t].pc = "done"

\* the file that execution t was pointed at
RecipeFile(t) == thr[t].files["recipe.json"]

SixFields == {"tokenId", "houseKey", "seed", "traits", "output", "renderSettings"}

\* the Principled node of the material in the first slot of an object
Bsdf(w, obj_name) ==
    LET mat == w.materials[w.objects[obj_name].materials[1]]
    IN  mat.nodes[CHOOSE i \in 1..Len(mat.nodes) : mat.nodes[i].type = "BSDF_PRINCIPLED"]

FrameParams(w) ==
    LET node == Bsdf(w, "Frame")
    IN  [color |-> node.BaseColor, metallic |-> node.Metallic, roughness |-> node.Roughness]

Glare(w) ==
    w.scene.nodes[CHOOSE i \in 1..Len(w.scene.nodes) : w.scene.nodes[i].type = "GLARE"]

VisibleGeometry(w) ==
    {n \in SeqRange(geometry_objects) \cap DOMAIN w.objects :
       ~w.objects[n].hide_viewport /\ ~w.objects[n].hide_render}

\* every value the configure steps set: materials and their assignment, lights,
\* visibility, compositor, colour management, render and output settings
Resolved(w) == [objects |-> w.objects, materials |-> w.materials, scene |-> w.scene]

\* the house whose template the interpreter has open
TemplateHouse(w) ==
    CHOOSE h \in HouseNames : w.filepath = "house_" \o lower[h] \o ".blend"

\* the low 32 bits of a seed, as eight hexadecimal digits
LowEight(seed_hex) ==
    LET digits == int16(seed_hex).digits
        n      == Len(digits)
    IN  [i \in 1..8 |-> IF i + n > 8 THEN digits[i + n - 8] ELSE 0]

-----------------------------------------------------------------------------
(* Properties *)

\* C1: two independent runs on the same template with the same houseKey,
\* traits and seed, whatever else differs (the token, the entropy of the host),
\* have after the same operations set identical values (materials, light
\* strengths and colours, visible geometry, post-processing) and hold the same
\* random stream.
Determinism ==
    ( /\ thr[1].ops # <<>>
      /\ thr[1].ops = thr[2].ops
      /\ thr[1].recipe = [thr[2].recipe EXCEPT !.tokenId = thr[1].recipe.tokenId] )
    => /\ Resolved(world[1]) = Resolved(world[2])
       /\ world[1].rng = world[2].rng

DeterminismWitness ==
    /\ Done(1) /\ Done(2)
    /\ thr[1].recipe.seed = thr[2].recipe.seed
    /\ thr[1].recipe.tokenId # thr[2].recipe.tokenId
    /\ thr[1].recipe.traits = [LightSignature |-> "RingRim"]
    /\ world[1].urandom # world[2].urandom

\* C2: load_recipe raises a ValueError that names a missing field whenever one
\* of the six required fields is missing from the file, and returns the file's
\* content when all six are there.
LoadRecipeValidates ==
    \A t \in Threads :
        thr[t].pc \notin {"idle", "main", "exit1", "load"} =>
            LET missing == SixFields \ DOMAIN RecipeFile(t)
            IN  IF missing # {}
                THEN /\ thr[t].pc = "raised"
                     /\ thr[t].exc.type = "ValueError"
                     /\ thr[t].exc.field \in missing
                     /\ ~thr[t].loaded
                ELSE /\ thr[t].loaded
                     /\ thr[t].recipe = RecipeFile(t)

LoadRecipeRaisedWitness ==
    /\ thr[1].pc = "raised"
    /\ thr[1].exc = [type |-> "ValueError", field |-> "renderSettings"]
    /\ DOMAIN RecipeFile(1) = SixFields \ {"renderSettings"}

\* C3: in every execution of main, seeding, configure steps and the render
\* happen only after load_recipe has returned a recipe that has the six
\* required fields; an execution whose recipe fails validation performs none.
NothingBeforeLoad ==
    \A t \in Threads :
        thr[t].ops # <<>> => thr[t].loaded /\ SixFields \subseteq DOMAIN RecipeFile(t)

AbortedUntouchedWitness ==
    /\ thr[1].pc = "raised"
    /\ thr[1].exc = [type |-> "ValueError", field |-> "output"]
    /\ thr[1].ops = <<>>
    /\ world[1].rng.source = "os"
    /\ world[1].renders = 0

\* C4: after configure_lens_bloom the glare mix is the LensBloom table's value
\* when the trait is present, the template's House glare_mix when the trait is
\* absent, and the Base glare_mix when the house has no override either.
GlareMixPrecedence ==
    \A t \in Threads :
        InOps(t, "bloom") =>
            LET traits == thr[t].recipe.traits
                w      == world[thr[t].host]
                house  == HOUSES[TemplateHouse(w)]
            IN  IF "LensBloom" \notin DOMAIN traits
                THEN Glare(w).mix = Get(house, "glare_mix", BASE_CONFIG.compositor.glare_mix)
                ELSE (traits.LensBloom \in DOMAIN bloom_settings
                       /\ "mix" \in DOMAIN bloom_settings[traits.LensBloom])
                     => Glare(w).mix = bloom_settings[traits.LensBloom].mix

\* C5: with empty traits, for every house key, the run gets through all
\* trait-driven steps without an exception; the frame and the core then carry
\* the full parameter set of their default entries and the lights step has
\* resolved a signature of the table.
FallbackSafety ==
    \A t \in Threads :
        (thr[t].loaded /\ thr[t].recipe.traits = EmptyDict /\ int16(thr[t].recipe.seed).ok) =>
            LET w == world[thr[t].host]
            IN  /\ thr[t].pc # "raised"
                /\ InOps(t, "frame") =>
                     FrameParams(w) = [color |-> <<600, 600, 620>>, metallic |-> 1000,
                                       roughness |-> 350]
                /\ InOps(t, "core") =>
                     /\ Bsdf(w, "Core").BaseColor = <<980, 990, 1000>>
                     /\ Bsdf(w, "Core").TransmissionWeight = 950
                     /\ Bsdf(w, "Core").Roughness = 20
                     /\ Bsdf(w, "Core").Metallic = 0
                /\ thr[t].pc = "atmosphere" =>
                     \E name \in DOMAIN signatures :
                        /\ thr[t].params = signatures[name]
                        /\ thr[t].recipe.houseKey \in DOMAIN house_defaults
                             => name = house_defaults[thr[t].recipe.houseKey]

FallbackSafetyWitness ==
    /\ Done(1)
    /\ thr[1].recipe.traits = EmptyDict
    /\ thr[1].recipe.houseKey = "UNKNOWN"

\* C6: a FrameType value that the frame table does not hold gives the frame the
\* colour and metallic of the BrushedSteel entry and its roughness (aged as the
\* SurfaceAging trait says), just as FrameType BrushedSteel does.
UnknownFrameIsBrushedSteel ==
    \A t \in Threads :
        LET traits == thr[t].recipe.traits
        IN  ( /\ InOps(t, "frame")
              /\ "FrameType" \in DOMAIN traits
              /\ traits.FrameType \notin DOMAIN frame_materials \ {"BrushedSteel"} ) =>
                LET add == Get(aging_params, Get(traits, "SurfaceAging", "Pristine"),
                               [roughness_add |-> 0]).roughness_add
                IN  FrameParams(world[thr[t].host]) =
                      [color |-> <<600, 600, 620>>, metallic |-> 1000,
                       roughness |-> Min(1000, 350 + add)]

UnknownFrameWitness ==
    /\ InOps(1, "frame")
    /\ thr[1].recipe.traits = [FrameType |-> Unknown, SurfaceAging |-> "AncientRelic"]
    /\ FrameParams(world[1]).roughness = 600

SeedReduction ==
    /\ ( /\ InOps(1, "seed_random") /\ InOps(2, "seed_random")
         /\ LowEight(thr[1].recipe.seed) = LowEight(thr[2].recipe.seed) )
       => world[1].rng = world[2].rng
    /\ \A t \in Threads :
         (InOps(t, "seed_random") /\ LowEight(thr[t].recipe.seed) = <<0, 0, 0, 0, 0, 0, 0, 1>>)
            => world[t].rng = [source |-> "seed", state |-> <<0, 1>>]

SeedReductionWitness ==
    /\ InOps(1, "seed_random") /\ InOps(2, "seed_random")
    /\ thr[1].recipe.seed = <<"0", "x", "1">>
    /\ thr[2].recipe.seed = <<"0", "x", "1", "0", "0", "0", "0", "0", "0", "0", "1">>

\* C9: two runs whose recipes differ only in the seed set, after the same
\* operations, equal values, and no configure step draws from the stream: its
\* state stays the one seed_random left.
SeedNonInterference ==
    /\ ( /\ InOps(1, "seed_random")
         /\ thr[1].ops = thr[2].ops
         /\ thr[1].recipe = [thr[2].recipe EXCEPT !.seed = thr[1].recipe.seed] )
       => Resolved(world[1]) = Resolved(world[2])
    /\ \A t \in Threads :
         InOps(t, "seed_random") =>
            world[t].rng.state = mod_2_32(int16(thr[t].recipe.seed).digits, 1, 0, 0)

SeedNonInterferenceWitness ==
    /\ Done(1) /\ Done(2)
    /\ thr[1].recipe.tokenId = thr[2].recipe.tokenId
    /\ thr[1].recipe.seed = <<"0", "x", "1">>
    /\ thr[2].recipe.seed = <<"0", "x", "2">>
    /\ thr[1].recipe.traits = [CoreMaterial |-> "FrozenPlasma"]

\* C10: after configure_geometry on a scene that holds the six variants, for
\* every DioramaGeometry value and every prior visibility, exactly one variant
\* is visible.
ExactlyOneGeometryVisible ==
    \A t \in Threads :
        LET w == world[thr[t].host]
        IN  (InOps(t, "geometry") /\ SeqRange(geometry_objects) \subseteq DOMAIN w.objects)
            => Cardinality(VisibleGeometry(w)) = 1


\* the Emission node of the material in the first slot of an emission plane
Emission(w, obj_name) ==
    LET mat == w.materials[w.objects[obj_name].materials[1]]
    IN  mat.nodes[CHOOSE i \in 1..Len(mat.nodes) : mat.nodes[i].type = "EMISSION"]

\* C11: after configure_geometry on a scene that holds the six variants, a
\* DioramaGeometry value that names none of them leaves Sphere the visible
\* variant, as an absent trait does.
UnknownGeometryShowsSphere ==
    \A t \in Threads :
        LET w      == world[thr[t].host]
            traits == thr[t].recipe.traits
        IN  ( /\ InOps(t, "geometry")
              /\ SeqRange(geometry_objects) \subseteq DOMAIN w.objects
              /\ \/ "DioramaGeometry" \notin DOMAIN traits
                 \/ "Geo_" \o traits.DioramaGeometry \notin SeqRange(geometry_objects) )
            => VisibleGeometry(w) = {"Geo_Sphere"}

FrostScenario(t) ==
    /\ thr[t].loaded
    /\ thr[t].recipe.houseKey = "FROST"
    /\ thr[t].recipe.seed = <<"0", "x", "A", "1">>
    /\ thr[t].recipe.traits = [CoreMaterial |-> "FrozenPlasma", FrameType |-> "WhiteGold",
                               SurfaceAging |-> "AncientRelic"]
    /\ TemplateHouse(world[thr[t].host]) = "FROST"

\* C12: in the FROST scenario (FrozenPlasma, WhiteGold, AncientRelic, seed
\* 0xA1) the core material has transmission 0.3, roughness 0.1 and emission
\* strength 2.0 once configure_core_material has run.
FrostCore ==
    \A t \in Threads :
        (FrostScenario(t) /\ InOps(t, "core")) =>
            LET node == Bsdf(world[thr[t].host], "Core")
            IN  /\ node.TransmissionWeight = 300
                /\ node.Roughness = 100
                /\ node.EmissionStrength = 2000

FrostCoreWitness ==
    /\ FrostScenario(1) /\ Done(1)
    /\ world[1].objects["Core"].materials[1] = "MAT_Core_FrozenPlasma"

\* C13: in the FROST scenario the frame roughness after
\* configure_frame_material is 0.1 + 0.25 = 0.35; for every frame type and
\* aging it is the sum of the two table values, never above 1.0.
FrostFrame ==
    \A t \in Threads :
        LET w == world[thr[t].host]
        IN  /\ (FrostScenario(t) /\ InOps(t, "frame")) => FrameParams(w).roughness = 350
            /\ InOps(t, "frame") =>
                 LET traits == thr[t].recipe.traits
                     base == Get(frame_materials, Get(traits, "FrameType", "BrushedSteel"),
                                 [roughness |-> 350]).roughness
                     add  == Get(aging_params, Get(traits, "SurfaceAging", "Pristine"),
                                 [roughness_add |-> 0]).roughness_add
                 IN  /\ FrameParams(w).roughness = IF base + add > 1000 THEN 1000
                                                   ELSE base + add
                     /\ FrameParams(w).roughness <= 1000

FrostFrameWitness ==
    /\ FrostScenario(1)
    /\ thr[1].pc = "core"
    /\ world[1].objects["Frame"].materials[1] = "MAT_Frame_WhiteGold"

\* C14: without a LightSignature trait configure_lights resolves the signature
\* of the recipe's house (CLEAR Sunbeam, MONSOON NeonRain, THUNDER
\* LightningFork, FROST PolarGlow, AURORA AuroraRibbon, SAND GoldenHaze,
\* ECLIPSE EclipseHalo); THUNDER gets the multiplier 1.5.
HouseDefaultSignature ==
    \A t \in Threads :
        ( /\ thr[t].pc = "atmosphere"
          /\ "LightSignature" \notin DOMAIN thr[t].recipe.traits ) =>
            LET house_key == thr[t].recipe.houseKey
                table == [CLEAR |-> "Sunbeam", MONSOON |-> "NeonRain",
                          THUNDER |-> "LightningFork", FROST |-> "PolarGlow",
                          AURORA |-> "AuroraRibbon", SAND |-> "GoldenHaze",
                          ECLIPSE |-> "EclipseHalo"]
            IN  /\ house_key \in DOMAIN table => thr[t].params = signatures[table[house_key]]
                /\ house_key = "THUNDER" =>
                     /\ thr[t].params.energy_mult = 150
                     /\ TemplateHouse(world[thr[t].host]) = "THUNDER" =>
                          Emission(world[thr[t].host], "Light_Key").Strength = 2325000

HouseDefaultSignatureWitness ==
    /\ thr[1].pc = "atmosphere"
    /\ thr[1].recipe.houseKey = "THUNDER"
    /\ thr[1].recipe.traits = EmptyDict
    /\ TemplateHouse(world[1]) = "THUNDER"

\* C15: in every generated template each of the four base lights has the
\* house's <name>_strength if the house defines it, else the Base strength, the
\* house's <name>_color if the house defines it, else the Base color, and the
\* size, location and rotation of Base.
BaseLightOverrides ==
    \A t \in Threads :
        (thr[t].pc # "idle" /\ ~InOps(t, "lights")) =>
            LET w     == world[thr[t].host]
                house == HOUSES[TemplateHouse(w)]
                object == [key |-> "Light_Key", fill |-> "Light_Fill", rim |-> "Light_Rim",
                           top_accent |-> "Light_TopAccent"]
            IN  \A name \in DOMAIN object :
                    LET base == BASE_CONFIG.lighting[name]
                    IN  w.objects[object[name]].type = "MESH" =>
                        /\ Emission(w, object[name]).Strength =
                              Get(house, name \o "_strength", base.strength)
                        /\ Emission(w, object[name]).Color =
                              Get(house, name \o "_color", base.color)
                        /\ w.objects[object[name]].scale = base.size
                        /\ w.objects[object[name]].location = base.location
                        /\ w.objects[object[name]].rotation = base.rotation

BaseLightOverridesWitness ==
    /\ thr[1].pc = "lights"
    /\ TemplateHouse(world[1]) = "ECLIPSE"
    /\ Emission(world[1], "Light_Fill").Strength = 350000
    /\ Emission(world[1], "Light_Rim").Color = <<969, 827, 486>>
    /\ Emission(world[1], "Light_Key").Strength = 1400000


\* the strength of an object as a light: the energy of a light object, the
\* emission strength of a mesh whose first material emits, else 0
Strength(w, obj_name) ==
    LET obj == w.objects[obj_name]
    IN  IF obj.type = "LIGHT" THEN obj.energy
        ELSE IF /\ "materials" \in DOMAIN obj
                /\ Len(obj.materials) > 0
                /\ obj.materials[1] \in DOMAIN w.materials
                /\ NodesOfType(w.materials[obj.materials[1]], "EMISSION") # {}
             THEN Emission(w, obj_name).Strength
        ELSE 0

\* thread t performs configure_lights in this step
LightsStep(t) == thr[t].pc = "lights" /\ thr'[t].pc = "atmosphere"

\* C16: configure_lights multiplies the strength of Light_Key, a light object
\* or an emission plane, by the resolved multiplier and changes the strength
\* of no other object.
EnergyMultiplierScope ==
    [][ \A t \in Threads :
          LightsStep(t) =>
            LET w    == world[thr[t].host]
                w2   == world'[thr[t].host]
                mult == thr'[t].params.energy_mult
            IN  /\ DOMAIN w2.objects = DOMAIN w.objects
                /\ Strength(w2, "Light_Key") = (Strength(w, "Light_Key") * mult) \div 100
                /\ \A n \in DOMAIN w.objects \ {"Light_Key"} :
                      Strength(w2, n) = Strength(w, n) ]_vars

EnergyMultiplierWitness ==
    /\ thr[1].pc = "atmosphere"
    /\ thr[1].recipe.traits = [LightSignature |-> "RingRim"]
    /\ world[1].objects["Light_Key"].type = "LIGHT"
    /\ world[1].objects["Light_Key"].energy = 300000
    /\ world[1].objects["Light_Fill"].type = "LIGHT"
    /\ world[1].objects["Light_Fill"].energy = 1000000

\* C17: configure_lights gives Light_Accent and Light_Fill the resolved accent
\* colour exactly when they are light objects; an emission plane of that name
\* keeps the emission colour it had.
AccentColorAsymmetry ==
    [][ \A t \in Threads :
          LightsStep(t) =>
            LET w  == world[thr[t].host]
                w2 == world'[thr[t].host]
            IN  \A n \in {"Light_Accent", "Light_Fill"} \cap DOMAIN w.objects :
                   IF w.objects[n].type = "LIGHT"
                   THEN w2.objects[n].color = thr'[t].params.accent_color
                   ELSE /\ w2.objects[n] = w.objects[n]
                        /\ Emission(w2, n).Color = Emission(w, n).Color ]_vars

AccentColorWitness ==
    /\ thr[1].pc = "atmosphere"
    /\ thr[1].recipe.traits = [LightSignature |-> "RingRim"]
    /\ "Light_Accent" \in DOMAIN world[1].objects
    /\ world[1].objects["Light_Accent"].type = "LIGHT"
    /\ world[1].objects["Light_Accent"].color = <<1000, 800, 500>>
    /\ world[1].objects["Light_Fill"].type = "MESH"
    /\ Emission(world[1], "Light_Fill").Color = <<1000, 1000, 1000>>


\* the node of a type in a material of the file
Node(w, mat_name, node_type) ==
    LET mat == w.materials[mat_name]
    IN  mat.nodes[CHOOSE i \in 1..Len(mat.nodes) : mat.nodes[i].type = node_type]

\* the lower bound of a parameter that is a float or a (min, max) range
Lower(param) == IF param.is_tuple THEN param.v[1] ELSE param.v

\* the roughness a core material was built with: the ADD node feeds it to the
\* Principled node when the material has edge frost
BuiltRoughness(w, mat_name) ==
    IF \E i \in NodesOfType(w.materials[mat_name], "MATH") :
          w.materials[mat_name].nodes[i].operation = "ADD"
    THEN LET mat == w.materials[mat_name]
         IN  mat.nodes[CHOOSE i \in NodesOfType(mat, "MATH") :
                          mat.nodes[i].operation = "ADD"].Value1
    ELSE Node(w, mat_name, "BSDF_PRINCIPLED").Roughness

\* C18: in every generated template a house parameter given as a (min, max)
\* range has reached the builders as its lower bound: the frame roughness is
\* metal_roughness[0], the core roughness core_roughness[0], the emissive
\* core, the particles and the rings carry the lower emission strength.
RangesResolveToLowerBound ==
    \A t \in Threads :
        thr[t].pc # "idle" =>
            LET w     == world[thr[t].host]
                h     == TemplateHouse(w)
                house == HOUSES[h]
                particle_strength == Lower(Get(house, "emission_strength", Scalar(3000)))
            IN  /\ Node(w, "MAT_Frame_" \o h, "BSDF_PRINCIPLED").Roughness =
                      Get(house, "metal_roughness", <<150, 250>>)[1]
                /\ house.core_type # "void" =>
                      BuiltRoughness(w, "MAT_Core_" \o h) =
                         Get(house, "core_roughness", <<20, 40>>)[1]
                /\ house.core_type = "emissive_glass" =>
                      Node(w, "MAT_Core_" \o h, "EMISSION").Strength =
                         Lower(Get(house, "emission_strength", Scalar(5000)))
                /\ Node(w, "MAT_Particles_" \o h, "EMISSION").Strength =
                      (particle_strength * 5) \div 10
                /\ "EnergyRings" \in DOMAIN w.objects =>
                      Node(w, "MAT_Rings_" \o h, "EMISSION").Strength =
                         (Lower(Get(house, "orbit_emission_strength",
                                    Scalar(particle_strength))) * 7) \div 10

RangesWitness ==
    /\ Done(1)
    /\ TemplateHouse(world[1]) = "SAND"
    /\ Node(world[1], "MAT_Frame_SAND", "BSDF_PRINCIPLED").Roughness = 180
    /\ Node(world[1], "MAT_Core_SAND", "BSDF_PRINCIPLED").Roughness = 40
    /\ Node(world[1], "MAT_Core_SAND", "EMISSION").Strength = 2000

\* C19: in every generated template the core material carries, for each
\* parameter its builder takes, the house's value or the dispatch's default.
ArchetypeCompleteness ==
    \A t \in Threads :
        thr[t].pc # "idle" =>
            LET w     == world[thr[t].host]
                h     == TemplateHouse(w)
                house == HOUSES[h]
                name  == "MAT_Core_" \o h
                bsdf  == Node(w, name, "BSDF_PRINCIPLED")
                roughness == Get(house, "core_roughness", <<20, 40>>)[1]
            IN  CASE house.core_type = "glass" ->
                       /\ bsdf.BaseColor = Get(house, "primary_color", <<1000, 1000, 1000>>)
                       /\ bsdf.TransmissionWeight = 950
                       /\ bsdf.Roughness = roughness
                       /\ bsdf.IOR = Get(house, "core_ior", 1450)
                  [] house.core_type = "emissive_glass" ->
                       /\ bsdf.BaseColor = Get(house, "primary_color", <<1000, 1000, 1000>>)
                       /\ bsdf.Roughness = roughness
                       /\ bsdf.IOR = Get(house, "core_ior", 1450)
                       /\ Node(w, name, "EMISSION").Color =
                             Get(house, "emission_color", <<1000, 1000, 1000>>)
                       /\ Node(w, name, "EMISSION").Strength =
                             Lower(Get(house, "emission_strength", Scalar(5000)))
                  [] house.core_type = "frosted_glass" ->
                       /\ bsdf.BaseColor = Get(house, "primary_color", <<900, 950, 1000>>)
                       /\ BuiltRoughness(w, name) = roughness
                       /\ bsdf.IOR = Get(house, "core_ior", 1310)
                       /\ "subsurface_color" \in DOMAIN house =>
                             /\ bsdf.SubsurfaceWeight = Get(house, "subsurface_strength", 80)
                             /\ bsdf.SubsurfaceRadius = house.subsurface_color
                  [] house.core_type = "iridescent_glass" ->
                       /\ bsdf.BaseColor = Get(house, "primary_color", <<900, 900, 1000>>)
                       /\ bsdf.Roughness = roughness
                       /\ bsdf.IOR = Get(house, "core_ior", 1480)
                       /\ Node(w, name, "MIX").Factor = Get(house, "iridescence_strength", 150)
                  [] house.core_type = "void" ->
                       /\ bsdf.BaseColor = Get(house, "core_base_color", <<20, 20, 20>>)
                       /\ Node(w, name, "EMISSION").Color =
                             Get(house, "fresnel_emission_color", <<1000, 500, 200>>)
                       /\ Node(w, name, "EMISSION").Strength =
                             Get(house, "fresnel_emission_strength", 8000)
                       /\ Node(w, name, "FRESNEL").IOR = Get(house, "fresnel_ior", 2500)
                       /\ Node(w, name, "MATH").Value1 = Get(house, "fresnel_power", 3000)
                  [] OTHER -> FALSE

ArchetypeCompletenessWitness ==
    /\ Done(1)
    /\ TemplateHouse(world[1]) = "ECLIPSE"
    /\ HOUSES["ECLIPSE"].core_type = "void"
    /\ Node(world[1], "MAT_Core_ECLIPSE", "FRESNEL").IOR = Get(HOUSES["ECLIPSE"], "fresnel_ior", 2500)

\* C20: the glass core of a template has a Dispersion value exactly when the
\* house's dispersion is positive and the engine's Principled node has the
\* socket; on an engine without the socket the material is the one a
\* dispersion of 0 gives.
OptionalDispersion ==
    \A t \in Threads :
        LET w == world[thr[t].host]
        IN  (thr[t].pc # "idle" /\ HOUSES[TemplateHouse(w)].core_type = "glass") =>
            LET h     == TemplateHouse(w)
                house == HOUSES[h]
                bsdf  == Node(w, "MAT_Core_" \o h, "BSDF_PRINCIPLED")
                dispersion == Get(house, "core_dispersion", 0)
            IN  /\ "Dispersion" \in DOMAIN bsdf <=>
                      (dispersion > 0 /\ "Dispersion" \in w.engine_sockets)
                /\ "Dispersion" \in DOMAIN bsdf => bsdf.Dispersion = dispersion
                /\ "Dispersion" \notin w.engine_sockets =>
                      w.materials["MAT_Core_" \o h] =
                         Material(
                           << OutputMaterial,
                              [PrincipledBSDF EXCEPT
                                 !.BaseColor = Get(house, "primary_color", <<1000, 1000, 1000>>),
                                 !.Metallic = 0,
                                 !.Roughness = Get(house, "core_roughness", <<20, 40>>)[1],
                                 !.TransmissionWeight = 950,
                                 !.IOR = Get(house, "core_ior", 1450)] >>,
                           {<<"Principled BSDF", "Material Output", "Surface">>})

OptionalDispersionWitness ==
    /\ Done(1)
    /\ TemplateHouse(world[1]) = "CLEAR"
    /\ world[1].engine_sockets = {}
    /\ HOUSES["CLEAR"].core_dispersion > 0
    /\ "Dispersion" \notin DOMAIN Node(world[1], "MAT_Core_CLEAR", "BSDF_PRINCIPLED")

-----------------------------------------------------------------------------
(* Renders in one process: both executions run in interpreter 1, on the    *)
(* scene it has open, and use its random module.                           *)

SharedTemplates == {"CLEAR", "THUNDER"}

SharedTraitChoices ==
    { EmptyDict,
      [LightSignature |-> "RingRim"],
      [LightSignature |-> "PrismaticRay"],
      [FrameType |-> "WhiteGold", SurfaceAging |-> "AncientRelic"],
      [FrameType |-> "PlatinumMatte", SurfaceAging |-> "AncientRelic"],
      [FrameType |-> Unknown, SurfaceAging |-> Unknown],
      [SurfaceAging |-> "WeatheredGrace"] }

InitShared ==
    \E h \in SharedTemplates, tr1 \in SharedTraitChoices, tr2 \in SharedTraitChoices,
       s1 \in FirstSeeds, s2 \in SecondSeeds, u \in 0..MaxEntropy :
        /\ world = [i \in Threads |-> IF i = 1 THEN Interp(Template({}, h), u)
                                      ELSE Interp(clear_scene, 0)]
        /\ thr = [t \in Threads |->
                    Start(1, GoodArgv,
                          IF t = 1 THEN PairRecipe("1", h, tr1, s1)
                          ELSE PairRecipe("2", h, tr2, s2))]

\* the executions are threads of the process and interleave
InitThreads ==
    \E h \in SharedTemplates, tr \in {EmptyDict, [LightSignature |-> "RingRim"]},
       s1 \in FirstSeeds, s2 \in SecondSeeds, u \in 0..MaxEntropy :
        /\ world = [i \in Threads |-> IF i = 1 THEN Interp(Template({}, h), u)
                                      ELSE Interp(clear_scene, 0)]
        /\ thr = [t \in Threads |->
                    Start(1, GoodArgv,
                          IF t = 1 THEN PairRecipe("1", h, tr, s1)
                          ELSE PairRecipe("2", h, tr, s2))]

SpecShared == InitThreads /\ [][Next]_vars

\* the executions are calls made one after the other: the next begins when the
\* one before it has returned
InTurn(t) == \A u \in Threads : u < t => thr[u].pc = "done"

NextBatch ==
    \E t \in Threads :
        \/ InTurn(t) /\ Main(t)
        \/ InTurn(t) /\ LoadRecipe(t)
        \/ InTurn(t) /\ SeedRandom(t)
        \/ InTurn(t) /\ ConfigureGeometry(t)
        \/ InTurn(t) /\ ConfigureFrameMaterial(t)
        \/ InTurn(t) /\ ConfigureCoreMaterial(t)
        \/ InTurn(t) /\ ConfigureLights(t)
        \/ InTurn(t) /\ ConfigureAtmosphere(t)
        \/ InTurn(t) /\ ConfigureLensBloom(t)
        \/ InTurn(t) /\ ApplyPaletteTemperature(t)
        \/ InTurn(t) /\ ConfigureRenderSettings(t)
        \/ InTurn(t) /\ ConfigureOutput(t)
        \/ InTurn(t) /\ Render(t)

SpecBatch == InitShared /\ [][NextBatch]_vars

\* C21: whatever renders came before in the same process and scene, the Key
\* light strength that configure_lights leaves is the template's Key strength
\* times the multiplier this render's recipe resolves to.
NoStateAcrossRenders ==
    \A t \in Threads :
        thr[t].pc = "atmosphere" =>
            LET w     == world[thr[t].host]
                house == HOUSES[TemplateHouse(w)]
                template_strength ==
                    Get(house, "key_strength", BASE_CONFIG.lighting.key.strength)
            IN  Emission(w, "Light_Key").Strength =
                   (template_strength * thr[t].params.energy_mult) \div 100

\* C22: when two renders run as threads of one process, the random stream a
\* render finds after its seed_random call is the one its own seed sets,
\* whatever the other render seeds and whenever.
RenderIndependence ==
    \A t \in Threads :
        InOps(t, "seed_random") =>
            world[thr[t].host].rng =
               [source |-> "seed",
                state |-> mod_2_32(int16(thr[t].recipe.seed).digits, 1, 0, 0)]

\* C26: after configure_frame_material, applied to a fresh template or again
\* in a scene that earlier applications have already configured, the frame
\* roughness is min(1.0, roughness of the FrameType entry + roughness_add of
\* the SurfaceAging entry), unrecognized values counting as BrushedSteel and
\* Pristine: it lies within [0, 1] and the increment does not accumulate.
AgingDoesNotAccumulate ==
    \A t \in Threads :
        thr[t].pc = "core" =>
            LET traits == thr[t].recipe.traits
                base == Get(frame_materials, Get(traits, "FrameType", "BrushedSteel"),
                            [roughness |-> 350]).roughness
                add  == Get(aging_params, Get(traits, "SurfaceAging", "Pristine"),
                            [roughness_add |-> 0]).roughness_add
                roughness == FrameParams(world[thr[t].host]).roughness
            IN  /\ roughness = Min(1000, base + add)
                /\ 0 <= roughness /\ roughness <= 1000

AgingDoesNotAccumulateWitness ==
    /\ Done(1)
    /\ thr[2].pc = "core"
    /\ thr[1].recipe.traits = [FrameType |-> "PlatinumMatte", SurfaceAging |-> "AncientRelic"]
    /\ thr[2].recipe.traits = thr[1].recipe.traits
    /\ FrameParams(world[1]).roughness = 850

\* C27: a LightSignature value that is not empty and not in the signature
\* table makes configure_lights use the Sunbeam entry (multiplier 1.2) whatever
\* the house; the house's default signature is used only when the trait is
\* absent or empty.
UnknownSignatureIsSunbeam ==
    \A t \in Threads :
        thr[t].pc = "atmosphere" =>
            LET traits    == thr[t].recipe.traits
                house_key == thr[t].recipe.houseKey
                sunbeam   == [energy_mult |-> 120, accent_color |-> <<1000, 950, 850>>]
            IN  IF "LightSignature" \in DOMAIN traits /\ traits.LightSignature # ""
                THEN traits.LightSignature \notin DOMAIN signatures =>
                        thr[t].params = sunbeam
                ELSE thr[t].params =
                        IF house_key \in DOMAIN house_defaults
                        THEN signatures[house_defaults[house_key]]
                        ELSE sunbeam

UnknownSignatureWitness ==
    /\ thr[1].pc = "atmosphere"
    /\ thr[1].recipe.houseKey = "THUNDER"
    /\ thr[1].recipe.traits = [LightSignature |-> Unknown]
    /\ TemplateHouse(world[1]) = "THUNDER"
    /\ thr[1].params.energy_mult = 120
    /\ Emission(world[1], "Light_Key").Strength = 1860000

\* the scene holds the objects generate_house_template creates, and no others
GeneratedScene(w) ==
    LET d == Template(w.engine_sockets, TemplateHouse(w))
    IN  /\ DOMAIN w.objects = DOMAIN d.objects
        /\ \A n \in DOMAIN d.objects : w.objects[n].type = d.objects[n].type

\* C28: on a scene that generate_house_template produced, whose base lights
\* Light_Key, Light_Fill, Light_Rim and Light_TopAccent are emission planes,
\* configure_lights changes the emission strength of Light_Key and nothing
\* else: no colour of any light, no other strength, for every house and traits.
LightsStepOnGeneratedScene ==
    [][ \A t \in Threads :
          (LightsStep(t) /\ GeneratedScene(world[thr[t].host])) =>
            LET w    == world[thr[t].host]
                w2   == world'[thr[t].host]
                key  == w.materials["MAT_Light_Key"]
                mult == thr'[t].params.energy_mult
            IN  /\ \A n \in {"Light_Key", "Light_Fill", "Light_Rim", "Light_TopAccent"} :
                      w.objects[n].type = "MESH"
                /\ w2.objects = w.objects
                /\ w2.scene = w.scene
                /\ DOMAIN w2.materials = DOMAIN w.materials
                /\ \A m \in DOMAIN w.materials \ {"MAT_Light_Key"} :
                      w2.materials[m] = w.materials[m]
                /\ Emission(w2, "Light_Key").Color = Emission(w, "Light_Key").Color
                /\ w2.materials["MAT_Light_Key"] =
                      [key EXCEPT !.nodes =
                         [i \in DOMAIN key.nodes |->
                            IF key.nodes[i].type = "EMISSION"
                            THEN [key.nodes[i] EXCEPT !.Strength = (@ * mult) \div 100]
                            ELSE key.nodes[i]]] ]_vars

LightsStepOnGeneratedWitness ==
    /\ thr[1].pc = "atmosphere"
    /\ TemplateHouse(world[1]) = "SAND"
    /\ GeneratedScene(world[1])
    /\ thr[1].recipe.houseKey = "SAND"
    /\ thr[1].recipe.traits = EmptyDict
    /\ Emission(world[1], "Light_Key").Strength = 1820000
    /\ Emission(world[1], "Light_Fill").Color = <<1000, 843, 639>>

\* C30: with engine CYCLES (named or by default) configure_render_settings
\* sets max_bounces to the recipe's maxBounces (6 when absent), diffuse to
\* min(2, maxBounces), glossy to min(3, maxBounces), transmission to
\* min(6, maxBounces) and volume to min(2, maxBounces): no per-type bounce
\* count exceeds max_bounces.
BounceClamps ==
    \A t \in Threads :
        ( /\ InOps(t, "render_settings")
          /\ Get(thr[t].recipe.renderSettings, "engine", "CYCLES") = "CYCLES" ) =>
            LET cycles     == world[thr[t].host].scene.cycles
                maxBounces == Get(thr[t].recipe.renderSettings, "maxBounces", 6)
            IN  /\ cycles.max_bounces = maxBounces
                /\ cycles.diffuse_bounces = (IF maxBounces < 2 THEN maxBounces ELSE 2)
                /\ cycles.glossy_bounces = (IF maxBounces < 3 THEN maxBounces ELSE 3)
                /\ cycles.transmission_bounces = (IF maxBounces < 6 THEN maxBounces ELSE 6)
                /\ cycles.volume_bounces = (IF maxBounces < 2 THEN maxBounces ELSE 2)
                /\ cycles.diffuse_bounces <= cycles.max_bounces
                /\ cycles.glossy_bounces <= cycles.max_bounces
                /\ cycles.transmission_bounces <= cycles.max_bounces
                /\ cycles.volume_bounces <= cycles.max_bounces

BounceClampsWitness ==
    /\ Done(1)
    /\ thr[1].recipe.renderSettings = [engine |-> "CYCLES", maxBounces |-> 1]
    /\ world[1].scene.cycles.max_bounces = 1
    /\ world[1].scene.cycles.transmission_bounces = 1
    /\ world[1].scene.cycles.glossy_bounces = 1

\* the objects of a scene that light it: light objects, and the meshes the
\* emission-plane and emission-ring constructors hide from the camera
RigLights(w) ==
    {n \in DOMAIN w.objects :
        \/ w.objects[n].type = "LIGHT"
        \/ w.objects[n].type = "MESH" /\ "visible_camera" \in DOMAIN w.objects[n]}

BaseLights == {"Light_Key", "Light_Fill", "Light_Rim", "Light_TopAccent"}

\* the object `name` of the scene is what the constructor of the entry's
\* variant builds from the entry
BuiltFrom(w, light_def) ==
    LET name == light_def.name
        obj  == w.objects[name]
    IN  CASE light_def.type = "EMISSION_PLANE" ->
               /\ obj.type = "MESH"
               /\ "scale" \in DOMAIN obj /\ obj.scale = light_def.size
               /\ obj.location = light_def.location
               /\ obj.rotation = light_def.rotation
               /\ obj.materials = <<"MAT_" \o name>>
               /\ Emission(w, name).Strength = light_def.strength
               /\ Emission(w, name).Color = light_def.color
          [] light_def.type = "EMISSION_RING" ->
               /\ obj.type = "MESH"
               /\ "major_radius" \in DOMAIN obj /\ obj.major_radius = light_def.radius
               /\ obj.minor_radius = light_def.tube_radius
               /\ obj.location = light_def.location
               /\ obj.rotation = light_def.rotation
               /\ obj.materials = <<"MAT_" \o name>>
               /\ Emission(w, name).Strength = light_def.strength
               /\ Emission(w, name).Color = light_def.color
          [] light_def.type = "AREA" ->
               /\ obj.type = "LIGHT" /\ obj.light_type = "AREA"
               /\ obj.size = light_def.size[1] /\ obj.size_y = light_def.size[2]
               /\ obj.energy = light_def.strength
               /\ obj.color = light_def.color
               /\ obj.location = light_def.location
          [] light_def.type = "POINT" ->
               /\ obj.type = "LIGHT" /\ obj.light_type = "POINT"
               /\ obj.energy = light_def.strength
               /\ obj.color = light_def.color
               /\ obj.location = light_def.location
          [] OTHER -> FALSE

\* C23: the rig of every generated template is the four base lights Key,
\* Fill, Rim and TopAccent plus one light for each entry of the house's
\* light_signature, built by the constructor of the entry's variant
\* (EMISSION_PLANE, EMISSION_RING, AREA, POINT) with the entry's own name,
\* strength and colour, and no other light.
RigComposition ==
    \A t \in Threads :
        (thr[t].pc # "idle" /\ GeneratedScene(world[thr[t].host])) =>
            LET w     == world[thr[t].host]
                house == HOUSES[TemplateHouse(w)]
                defs  == Get(house, "light_signature", <<>>)
            IN  /\ RigLights(w) = BaseLights \cup {defs[i].name : i \in 1..Len(defs)}
                /\ Cardinality(RigLights(w)) = 4 + Len(defs)
                /\ \A n \in BaseLights :
                      w.objects[n].type = "MESH" /\ "scale" \in DOMAIN w.objects[n]
                /\ \A i \in 1..Len(defs) : BuiltFrom(w, defs[i])

RigCompositionWitness ==
    /\ Done(1)
    /\ TemplateHouse(world[1]) = "ECLIPSE"
    /\ GeneratedScene(world[1])
    /\ RigLights(world[1]) = BaseLights \cup {"CoronaDisc", "RingRim"}
    /\ world[1].objects["RingRim"].major_radius = 450
    /\ Emission(world[1], "RingRim").Strength = 150000

-----------------------------------------------------------------------------
(* generate_templates.py: calls of the builders.  thr[t] is one call, made *)
(* in the generator process world[thr[t].host]; its result is stored under *)
(* the name the call was given.                                            *)

BuildCall(host, fn, name, args) ==
    [pc |-> "call", host |-> host, fn |-> fn, name |-> name, args |-> args, exc |-> NoExc]

\* lines 661-699; a parameter the call leaves out takes the default of line 661
CreateEmissiveGlassMaterial(t) ==
    /\ thr[t].pc = "call"
    /\ thr[t].fn = "create_emissive_glass_material"
    /\ LET a   == thr[t].args
           mat == create_emissive_glass_material(thr[t].name, a.color, a.emission_color,
                    Get(a, "emission_strength", 5000), Get(a, "roughness", 20),
                    Get(a, "ior", 1450))
       IN  world' = [world EXCEPT ![thr[t].host] = AddMaterial(@, thr[t].name, mat)]
    /\ thr' = [thr EXCEPT ![t].pc = "returned"]

\* lines 702-747; defaults of line 702
CreateFrostedGlassMaterial(t) ==
    /\ thr[t].pc = "call"
    /\ thr[t].fn = "create_frosted_glass_material"
    /\ LET a   == thr[t].args
           mat == create_frosted_glass_material(thr[t].name, a.color,
                    Get(a, "roughness", 80), Get(a, "ior", 1310),
                    Get(a, "subsurface_color", <<>>),
                    Get(a, "subsurface_strength", 80),
                    Get(a, "edge_frost", FALSE))
       IN  world' = [world EXCEPT ![thr[t].host] = AddMaterial(@, thr[t].name, mat)]
    /\ thr' = [thr EXCEPT ![t].pc = "returned"]

\* lines 1294-1324; defaults of line 1294
CreateFloatingParticles(t) ==
    /\ thr[t].pc = "call"
    /\ thr[t].fn = "create_floating_particles"
    /\ LET a   == thr[t].args
           res == create_floating_particles(world[thr[t].host], thr[t].name,
                    Get(a, "count", 30), Get(a, "radius_range", <<600, 1000>>),
                    Get(a, "size", 15))
       IN  /\ world' = [world EXCEPT ![thr[t].host] = res.w]
           /\ thr' = [thr EXCEPT ![t].pc = IF res.raised = "" THEN "returned" ELSE "raised",
                                 ![t].exc = [type |-> res.raised, field |-> ""]]

NextBuild ==
    \E t \in Threads :
        \/ CreateEmissiveGlassMaterial(t)
        \/ CreateFrostedGlassMaterial(t)
        \/ CreateFloatingParticles(t)

EmissiveGlassArgs ==
    { [color |-> <<600, 500, 1000>>, emission_color |-> <<545, 486, 1000>>,
       emission_strength |-> 4000, roughness |-> r, ior |-> i] :
         r \in {20, 40}, i \in {1330, 1450, 1500} }
    \cup { [color |-> <<600, 500, 1000>>, emission_color |-> <<545, 486, 1000>>,
            emission_strength |-> 4000, roughness |-> 20] }

FrostedGlassArgs ==
    { [color |-> <<850, 950, 1000>>, roughness |-> r, ior |-> i,
       subsurface_color |-> sc, subsurface_strength |-> 80, edge_frost |-> ef] :
         r \in {60, 80}, i \in {1300, 1310, 1450},
         sc \in {<<>>, <<839, 949, 1000>>}, ef \in BOOLEAN }
    \cup { [color |-> <<850, 950, 1000>>] }

ParticleArgs ==
    { [count |-> c, radius_range |-> rr, size |-> s] :
        c \in 0..MaxParticles, rr \in {<<500, 900>>, <<600, 1000>>}, s \in {12, 15} }
    \cup { EmptyDict }

BuildCalls ==
    { <<"create_emissive_glass_material", a1, a2>> :
         a1 \in EmissiveGlassArgs, a2 \in EmissiveGlassArgs }
    \cup { <<"create_frosted_glass_material", a1, a2>> :
         a1 \in FrostedGlassArgs, a2 \in FrostedGlassArgs }
    \cup { <<"create_floating_particles", a1, a2>> :
         a1 \in ParticleArgs, a2 \in ParticleArgs }

\* the generator process before the call: its random module is as the import
\* left it, or has been seeded with a recipe seed
Generator(u, seeded) ==
    IF seeded THEN seed_random(Interp(clear_scene, u), <<"0", "x", "A", "1">>)
    ELSE Interp(clear_scene, u)

\* two calls of one builder, in two processes or one after the other in one
InitBuild ==
    \E c \in BuildCalls, host2 \in Threads, u \in 0..MaxEntropy, seeded \in BOOLEAN :
        /\ world = [h \in Threads |-> IF h = 1 THEN Generator(0, FALSE)
                                      ELSE Generator(u, seeded)]
        /\ thr = [t \in Threads |->
                    IF t = 1 THEN BuildCall(1, c[1], "Built_1", c[2])
                    ELSE BuildCall(host2, c[1], "Built_2", c[3])]

SpecBuild == InitBuild /\ [][NextBuild]_vars

\* the call t has returned from the builder fn
Returned(t, fn) == thr[t].pc = "returned" /\ thr[t].fn = fn

\* the material the call t built
Built(t) == world[thr[t].host].materials[thr[t].name]

\* C24: the IOR of the Fresnel node that blends the glass and the emission
\* branch of an emissive glass material is set by the builder's ior parameter:
\* two builds that differ in ior alone differ in the IOR of their Fresnel node.
FresnelIorConfigurable ==
    ( /\ Returned(1, "create_emissive_glass_material")
      /\ Returned(2, "create_emissive_glass_material")
      /\ "ior" \in DOMAIN thr[1].args /\ "ior" \in DOMAIN thr[2].args
      /\ thr[1].args.ior # thr[2].args.ior
      /\ thr[1].args = [thr[2].args EXCEPT !.ior = thr[1].args.ior] )
    => Node(world[thr[1].host], thr[1].name, "FRESNEL").IOR
          # Node(world[thr[2].host], thr[2].name, "FRESNEL").IOR

\* C25: a frosted glass material built with edge frost feeds the shader the
\* roughness baseRoughness + fresnel(ior) * edgeBoost: a Fresnel node at the
\* material's ior, multiplied by the edge boost, added to the builder's
\* roughness and linked to the Roughness input; built without edge frost it
\* has the builder's roughness as its Roughness and no Fresnel node.
EdgeFrostRoughness ==
    \A t \in Threads :
        Returned(t, "create_frosted_glass_material") =>
            LET a         == thr[t].args
                mat       == Built(t)
                roughness == Get(a, "roughness", 80)
                ior       == Get(a, "ior", 1310)
                w         == world[thr[t].host]
            IN  IF Get(a, "edge_frost", FALSE)
                THEN /\ NodesOfType(mat, "FRESNEL") # {}
                     /\ Node(w, thr[t].name, "FRESNEL").IOR = ior
                     /\ \E i \in NodesOfType(mat, "MATH"), j \in NodesOfType(mat, "MATH") :
                           /\ mat.nodes[i].operation = "MULTIPLY"
                           /\ mat.nodes[j].operation = "ADD"
                           /\ mat.nodes[j].Value1 = roughness
                           /\ <<"Fresnel", mat.nodes[i].name, "Value0">> \in mat.links
                           /\ <<mat.nodes[i].name, mat.nodes[j].name, "Value0">> \in mat.links
                           /\ <<mat.nodes[j].name, "Principled BSDF", "Roughness">>
                                 \in mat.links
                ELSE /\ NodesOfType(mat, "FRESNEL") = {}
                     /\ Node(w, thr[t].name, "BSDF_PRINCIPLED").Roughness = roughness
                     /\ \A l \in mat.links : ~(l[2] = "Principled BSDF" /\ l[3] = "Roughness")

\* C29: create_floating_particles seeds the random stream with 42 on every
\* call: two calls with equal count, radius_range and size make the same
\* sequence of particle positions and sizes, whatever state the stream was in
\* before either call (left by the import, set by a recipe seed, advanced by an
\* earlier call), and each leaves the stream where seed 42 and its draws put it.
ParticlesReseeded ==
    /\ ( /\ Returned(1, "create_floating_particles")
         /\ Returned(2, "create_floating_particles")
         /\ thr[1].args = thr[2].args )
       => world[thr[1].host].objects[thr[1].name].particles
             = world[thr[2].host].objects[thr[2].name].particles
    /\ \A t \in Threads :
         Returned(t, "create_floating_particles") =>
            LET particles == world[thr[t].host].objects[thr[t].name].particles
            IN  /\ Len(particles) = Get(thr[t].args, "count", 30)
                /\ particles[1].location.theta.rng = [source |-> "seed", state |-> <<0, 42>>]

ParticlesReseededWitness ==
    /\ Returned(1, "create_floating_particles")
    /\ Returned(2, "create_floating_particles")
    /\ thr[1].args = thr[2].args
    /\ thr[1].args = [count |-> MaxParticles, radius_range |-> <<500, 900>>, size |-> 12]
    /\ thr[1].host # thr[2].host
    /\ world[1].urandom # world[2].urandom
    /\ Len(world[2].objects["Built_2"].particles) = MaxParticles

=============================================================================
